---- MODULE Spec2Model ----
(***************************************************************************)
(* Model of the SBOM normalisation and metrics pipeline of                 *)
(* sbom-ui-action (src/index.js, class SBOMUIGenerator).                   *)
(*                                                                         *)
(* JavaScript strings are sequences of one-character strings, so that      *)
(* includes, replace, toUpperCase and the regular expressions act on the   *)
(* characters.  A CVSS score s is the integer 10*s.                        *)
(* A JSON value is a record tagged by kind: undefined, null, string,       *)
(* number, array, object.                                                  *)
(* The percentage of parseSBOMFiles is computed on IEEE 754 doubles, bit    *)
(* by bit.  The last part models the filters of the generated dashboard,   *)
(* location.hash and the view saved in localStorage.                       *)
(***************************************************************************)
EXTENDS Integers, Sequences, FiniteSets, TLC

VARIABLES
  pc,             \* position of the running operation
  filePath,       \* extractDatasetId: argument (path segments relative to cwd)
  datasetId,      \* extractDatasetId: returned id
  vulnerability,  \* extractFixedVersions: argument
  fixedVersions,  \* extractFixedVersions: returned list
  json,           \* parseCycloneDX: argument
  parsed,         \* parseCycloneDX: returned object
  arg,            \* pickCVSS, severityOrder, countSeverities, buildTopCVEs: argument
  ret,            \* pickCVSS, severityOrder, countSeverities, buildTopCVEs: returned value
  view,           \* dashboard: q, dataset, severity, fix, cvssMin, sortKey, sortDir, page
  hash,           \* dashboard: location.hash
  sbom_view,      \* dashboard: the item sbom_view of localStorage
  savedFilters,   \* dashboard: the filters of view when saveView last stored location.hash
  clicks,         \* dashboard: number of handlers run so far
  app,            \* dashboard: severity, sortDir, filtered, page, perPage, pages, paged,
                  \* mobileFilters
  window,         \* dashboard: innerWidth and the pending setTimeout callbacks
  patterns,       \* this.sbomFiles, split at the commas and trimmed
  sbomFiles,      \* run: the files returned by findSBOMFiles
  fileIdx,        \* parseSBOMFiles: index of the next file of the for loop
  datasets,       \* parseSBOMFiles: accumulated dataset entries
  allItems,       \* parseSBOMFiles: accumulated records
  warnings,       \* core.warning calls, in order
  parsedData,     \* the ParsedResult about to be written
  outputFiles,    \* the files under outputDir: name -> content
  writes,         \* the names passed to fs.writeFileSync, in order
  failed,         \* core.setFailed was called
  failedBy,       \* the step whose error reached the catch of run()
  outputs         \* names set with core.setOutput

dsVars    == <<filePath, datasetId>>
fixVars   == <<vulnerability, fixedVersions>>
parseVars == <<json, parsed>>
callVars  == <<arg, ret>>
runVars   == <<patterns, sbomFiles, fileIdx, datasets, allItems, warnings,
               parsedData, outputFiles, writes, failed, failedBy, outputs>>
uiVars    == <<view, hash, sbom_view, savedFilters, clicks, app, window>>
vars      == <<pc, dsVars, fixVars, parseVars, callVars, uiVars, runVars>>

-----------------------------------------------------------------------------
(* String primitives (String.prototype, RegExp)                            *)

CharCodeTable ==
  ("a" :> 97) @@ ("b" :> 98) @@ ("c" :> 99) @@ ("d" :> 100) @@ ("e" :> 101) @@ ("f" :> 102) @@
  ("g" :> 103) @@ ("h" :> 104) @@ ("i" :> 105) @@ ("j" :> 106) @@ ("k" :> 107) @@ ("l" :> 108) @@
  ("m" :> 109) @@ ("n" :> 110) @@ ("o" :> 111) @@ ("p" :> 112) @@ ("q" :> 113) @@ ("r" :> 114) @@
  ("s" :> 115) @@ ("t" :> 116) @@ ("u" :> 117) @@ ("v" :> 118) @@ ("w" :> 119) @@ ("x" :> 120) @@
  ("y" :> 121) @@ ("z" :> 122) @@ ("A" :> 65) @@ ("B" :> 66) @@ ("C" :> 67) @@ ("D" :> 68) @@
  ("E" :> 69) @@ ("F" :> 70) @@ ("G" :> 71) @@ ("H" :> 72) @@ ("I" :> 73) @@ ("J" :> 74) @@
  ("K" :> 75) @@ ("L" :> 76) @@ ("M" :> 77) @@ ("N" :> 78) @@ ("O" :> 79) @@ ("P" :> 80) @@
  ("Q" :> 81) @@ ("R" :> 82) @@ ("S" :> 83) @@ ("T" :> 84) @@ ("U" :> 85) @@ ("V" :> 86) @@
  ("W" :> 87) @@ ("X" :> 88) @@ ("Y" :> 89) @@ ("Z" :> 90) @@ ("0" :> 48) @@ ("1" :> 49) @@
  ("2" :> 50) @@ ("3" :> 51) @@ ("4" :> 52) @@ ("5" :> 53) @@ ("6" :> 54) @@ ("7" :> 55) @@
  ("8" :> 56) @@ ("9" :> 57) @@ ("-" :> 45) @@ ("_" :> 95) @@ ("." :> 46) @@ (" " :> 32) @@
  ("/" :> 47) @@ ("@" :> 64)

UpperTable ==
  ("a" :> "A") @@ ("b" :> "B") @@ ("c" :> "C") @@ ("d" :> "D") @@ ("e" :> "E") @@ ("f" :> "F") @@
  ("g" :> "G") @@ ("h" :> "H") @@ ("i" :> "I") @@ ("j" :> "J") @@ ("k" :> "K") @@ ("l" :> "L") @@
  ("m" :> "M") @@ ("n" :> "N") @@ ("o" :> "O") @@ ("p" :> "P") @@ ("q" :> "Q") @@ ("r" :> "R") @@
  ("s" :> "S") @@ ("t" :> "T") @@ ("u" :> "U") @@ ("v" :> "V") @@ ("w" :> "W") @@ ("x" :> "X") @@
  ("y" :> "Y") @@ ("z" :> "Z")

LowerTable ==
  ("A" :> "a") @@ ("B" :> "b") @@ ("C" :> "c") @@ ("D" :> "d") @@ ("E" :> "e") @@ ("F" :> "f") @@
  ("G" :> "g") @@ ("H" :> "h") @@ ("I" :> "i") @@ ("J" :> "j") @@ ("K" :> "k") @@ ("L" :> "l") @@
  ("M" :> "m") @@ ("N" :> "n") @@ ("O" :> "o") @@ ("P" :> "p") @@ ("Q" :> "q") @@ ("R" :> "r") @@
  ("S" :> "s") @@ ("T" :> "t") @@ ("U" :> "u") @@ ("V" :> "v") @@ ("W" :> "w") @@ ("X" :> "x") @@
  ("Y" :> "y") @@ ("Z" :> "z")

Digits == {"0", "1", "2", "3", "4", "5", "6", "7", "8", "9"}

\* the characters the class [a-zA-Z0-9-_] accepts
IdChars == DOMAIN LowerTable \cup {LowerTable[c] : c \in DOMAIN LowerTable}
             \cup Digits \cup {"-", "_"}

charCodeAt(c) == CharCodeTable[c]

toLowerCase(s) ==
  [k \in 1..Len(s) |-> IF s[k] \in DOMAIN LowerTable THEN LowerTable[s[k]] ELSE s[k]]

toUpperCase(s) ==
  [k \in 1..Len(s) |-> IF s[k] \in DOMAIN UpperTable THEN UpperTable[s[k]] ELSE s[k]]

startsWith(s, p) == Len(s) >= Len(p) /\ SubSeq(s, 1, Len(p)) = p

endsWith(s, p) == Len(s) >= Len(p) /\ SubSeq(s, Len(s) - Len(p) + 1, Len(s)) = p

\* index (from 1) of the first occurrence of p in s, 0 when there is none
indexOf(s, p) ==
  LET hits == {k \in 1..(Len(s) - Len(p) + 1) : SubSeq(s, k, k + Len(p) - 1) = p}
  IN  IF hits = {} THEN 0 ELSE CHOOSE k \in hits : \A m \in hits : k <= m

includes(s, p) == indexOf(s, p) # 0

\* s.replace(p, r) with a string pattern: the first occurrence only
replace(s, p, r) ==
  LET k == indexOf(s, p)
  IN  IF k = 0 THEN s
      ELSE SubSeq(s, 1, k - 1) \o r \o SubSeq(s, k + Len(p), Len(s))

\* s.replace(/[^a-zA-Z0-9-_]/g, '-')
sanitize(s) == [k \in 1..Len(s) |-> IF s[k] \in IdChars THEN s[k] ELSE "-"]

\* s.match(/^\d+$/)
isAllDigits(s) == Len(s) > 0 /\ \A k \in 1..Len(s) : s[k] \in Digits

RECURSIVE join(_, _)
join(parts, sep) ==
  IF Len(parts) = 0 THEN <<>>
  ELSE IF Len(parts) = 1 THEN parts[1]
  ELSE parts[1] \o sep \o join(Tail(parts), sep)

-----------------------------------------------------------------------------
(* path.extname, path.basename (Node), on one path segment                 *)

\* position of the last "." of f, 0 when there is none
lastDot(f) ==
  LET dots == {k \in 1..Len(f) : f[k] = "."}
  IN  IF dots = {} THEN 0 ELSE CHOOSE k \in dots : \A m \in dots : m <= k

\* path.extname: from the last "." to the end; "" when there is no "." or the
\* only "." is the first character
extname(f) ==
  IF lastDot(f) <= 1 THEN <<>> ELSE SubSeq(f, lastDot(f), Len(f))

\* path.basename(f, ext)
basename(f, ext) ==
  IF Len(ext) > 0 /\ Len(f) > Len(ext) /\ endsWith(f, ext)
  THEN SubSeq(f, 1, Len(f) - Len(ext))
  ELSE f

-----------------------------------------------------------------------------
(* simpleHash: 32-bit arithmetic on two 16-bit limbs <<hi, lo>>, the       *)
(* two's-complement image of the int32 value                               *)

W16 == 65536

\* ((hash << 5) - hash) + char, then hash & hash (ToInt32)
hashStep(h, c) ==
  LET shLo  == (h[2] * 32) % W16
      shHi  == (h[1] * 32 + (h[2] * 32) \div W16) % W16
      lo    == shLo - h[2] + c
      loW   == (lo + W16) % W16
      carry == IF lo < 0 THEN -1 ELSE IF lo >= W16 THEN 1 ELSE 0
      hi    == (shHi - h[1] + carry + 2 * W16) % W16
  IN  <<hi, loW>>

RECURSIVE hashLoop(_, _, _)
hashLoop(str, k, h) ==
  IF k > Len(str) THEN h
  ELSE hashLoop(str, k + 1, hashStep(h, charCodeAt(str[k])))

\* Math.abs of the int32 with limbs h, as limbs of the magnitude (0..2^31)
absLimbs(h) ==
  IF h[1] < 32768 THEN h
  ELSE IF h[2] = 0 THEN <<W16 - h[1], 0>>
  ELSE <<W16 - 1 - h[1], W16 - h[2]>>

Base36Digits ==
  <<"0","1","2","3","4","5","6","7","8","9","a","b","c","d","e","f","g","h","i",
    "j","k","l","m","n","o","p","q","r","s","t","u","v","w","x","y","z">>

\* Number.prototype.toString(36) of the magnitude with limbs m
RECURSIVE toString36(_)
toString36(m) ==
  LET qHi == m[1] \div 36
      mid == (m[1] % 36) * W16 + m[2]
      qLo == mid \div 36
      d   == mid % 36
  IN  IF qHi = 0 /\ qLo = 0 THEN <<Base36Digits[d + 1]>>
      ELSE toString36(<<qHi, qLo>>) \o <<Base36Digits[d + 1]>>

substring(s, from, to) == SubSeq(s, from + 1, IF to < Len(s) THEN to ELSE Len(s))

\* faulty variant: the sign of the hash is kept (no Math.abs)
simpleHash_noAbs(str) ==
  LET h == hashLoop(str, 1, <<0, 0>>)
  IN  substring((IF h[1] >= 32768 THEN <<"-">> ELSE <<>>) \o toString36(absLimbs(h)), 0, 6)

simpleHash(str) ==
  substring(toString36(absLimbs(hashLoop(str, 1, <<0, 0>>))), 0, 6)

-----------------------------------------------------------------------------
(* extractDatasetId                                                        *)

GenericDirs ==
  {<<"s","r","c">>, <<"l","i","b">>, <<"b","i","n">>, <<"e","t","c">>, <<"v","a","r">>, <<"t","m","p">>, <<"t","e","m","p">>, <<"a","l","l","-","a","r","t","i","f","a","c","t","s">>}

GenericFileNames == {<<"s","b","o","m">>, <<"b","o","m">>, <<"c","y","c","l","o","n","e","d","x">>, <<"s","p","d","x">>}

Found(id) == [found |-> TRUE, id |-> id]
NotFound  == [found |-> FALSE, id |-> <<>>]

\* const imageName = fileNameLower.replace('sbom-', '').replace('.cyclonedx.json', '')
imageNameOf(fileNameLower) ==
  replace(replace(fileNameLower, <<"s","b","o","m","-">>, <<>>), <<".","c","y","c","l","o","n","e","d","x",".","j","s","o","n">>, <<>>)

\* faulty variant: backend and frontend are tested before amd64
imageNameId_backendFirst(imageName) ==
  IF includes(imageName, <<"s","t","a","b","l","e">>) THEN <<"s","t","a","b","l","e">>
  ELSE IF includes(imageName, <<"a","r","m","6","4">>) THEN <<"a","r","m","6","4">>
  ELSE IF includes(imageName, <<"b","a","c","k","e","n","d">>) THEN <<"b","a","c","k","e","n","d">>
  ELSE IF includes(imageName, <<"f","r","o","n","t","e","n","d">>) THEN <<"f","r","o","n","t","e","n","d">>
  ELSE IF includes(imageName, <<"a","m","d","6","4">>) THEN <<"a","m","d","6","4">>
  ELSE sanitize(imageName)

\* the keyword tests on imageName and the final return of strategy 1
imageNameId(imageName) ==
  IF includes(imageName, <<"s","t","a","b","l","e">>) THEN <<"s","t","a","b","l","e">>
  ELSE IF includes(imageName, <<"a","r","m","6","4">>) THEN <<"a","r","m","6","4">>
  ELSE IF includes(imageName, <<"a","m","d","6","4">>)
       THEN IF includes(imageName, <<"b","a","c","k","e","n","d">>) THEN <<"b","a","c","k","e","n","d","-","a","m","d","6","4">>
            ELSE IF includes(imageName, <<"f","r","o","n","t","e","n","d">>) THEN <<"f","r","o","n","t","e","n","d","-","a","m","d","6","4">>
            ELSE <<"a","m","d","6","4">>
  ELSE IF includes(imageName, <<"b","a","c","k","e","n","d">>) THEN <<"b","a","c","k","e","n","d">>
  ELSE IF includes(imageName, <<"f","r","o","n","t","e","n","d">>) THEN <<"f","r","o","n","t","e","n","d">>
  ELSE sanitize(imageName)

\* Strategy 1, the body of  if (fileNameLower.startsWith('sbom-'))
fileNameStrategy(fileNameLower) == imageNameId(imageNameOf(fileNameLower))

\* Strategy 2, one iteration of the for loop over parts[0 .. length-2]
dirStrategy(dirName) ==
  IF dirName \in GenericDirs THEN NotFound
  ELSE IF includes(dirName, <<"s","t","a","b","l","e">>) \/ includes(dirName, <<"p","r","o","d">>)
          \/ includes(dirName, <<"p","r","o","d","u","c","t","i","o","n">>) THEN Found(<<"s","t","a","b","l","e">>)
  ELSE IF includes(dirName, <<"a","r","m","6","4">>) \/ includes(dirName, <<"a","a","r","c","h","6","4">>)
       THEN Found(<<"a","r","m","6","4">>)
  ELSE IF includes(dirName, <<"a","m","d","6","4">>) \/ includes(dirName, <<"x","8","6","_","6","4">>)
       THEN IF includes(dirName, <<"b","a","c","k","e","n","d">>) THEN Found(<<"b","a","c","k","e","n","d","-","a","m","d","6","4">>)
            ELSE IF includes(dirName, <<"f","r","o","n","t","e","n","d">>) THEN Found(<<"f","r","o","n","t","e","n","d","-","a","m","d","6","4">>)
            ELSE Found(<<"a","m","d","6","4">>)
  ELSE IF includes(dirName, <<"b","a","c","k","e","n","d">>) \/ includes(dirName, <<"a","p","i">>)
       THEN Found(<<"b","a","c","k","e","n","d">>)
  ELSE IF includes(dirName, <<"f","r","o","n","t","e","n","d">>) \/ includes(dirName, <<"w","e","b">>)
          \/ includes(dirName, <<"u","i">>) THEN Found(<<"f","r","o","n","t","e","n","d">>)
  ELSE IF includes(dirName, <<"m","a","i","n">>) \/ includes(dirName, <<"m","a","s","t","e","r">>)
       THEN Found(<<"m","a","i","n">>)
  ELSE IF includes(dirName, <<"d","e","v","e","l","o","p">>) \/ includes(dirName, <<"d","e","v">>)
       THEN Found(<<"d","e","v","e","l","o","p">>)
  ELSE IF includes(dirName, <<"r","e","l","e","a","s","e">>) \/ includes(dirName, <<"r","e","l">>)
       THEN Found(<<"r","e","l","e","a","s","e">>)
  ELSE IF includes(dirName, <<"t","e","s","t">>) \/ includes(dirName, <<"t","e","s","t","i","n","g">>)
       THEN Found(<<"t","e","s","t">>)
  ELSE IF includes(dirName, <<"s","t","a","g","i","n","g">>) \/ includes(dirName, <<"s","t","a","g","e">>)
       THEN Found(<<"s","t","a","g","i","n","g">>)
  ELSE IF Len(dirName) > 2 /\ ~isAllDigits(dirName) THEN Found(sanitize(dirName))
  ELSE NotFound

\* the for loop of strategy 2: the first iteration that returns
RECURSIVE dirScan(_, _)
dirScanNext(parts, k, r) == IF r.found THEN r ELSE dirScan(parts, k + 1)

dirScan(parts, k) ==
  IF k > Len(parts) - 1 THEN NotFound
  ELSE dirScanNext(parts, k, dirStrategy(toLowerCase(parts[k])))

\* strategies 3 and 4 and the fallback
afterDirScan(parts, fileName) ==
  IF Len(fileName) > 2 /\ toLowerCase(fileName) \notin GenericFileNames
  THEN sanitize(fileName)
  ELSE IF Len(parts) > 1 /\ Len(parts[Len(parts) - 1]) > 2
  THEN sanitize(parts[Len(parts) - 1])
  ELSE <<"d","a","t","a","s","e","t","-">> \o simpleHash(join(parts, <<"/">>))

\* strategy 2, then the later ones
fromDirScan(scan, parts, fileName) ==
  IF scan.found THEN scan.id ELSE afterDirScan(parts, fileName)

\* faulty variant: the bare file name is tried before the directories
resolveId_fileFirst(parts, fileName) ==
  IF startsWith(toLowerCase(fileName), <<"s","b","o","m","-">>)
  THEN fileNameStrategy(toLowerCase(fileName))
  ELSE IF Len(fileName) > 2 /\ toLowerCase(fileName) \notin GenericFileNames
  THEN sanitize(fileName)
  ELSE fromDirScan(dirScan(parts, 1), parts, fileName)

\* the body of extractDatasetId once fileName is known
resolveId(parts, fileName) ==
  IF startsWith(toLowerCase(fileName), <<"s","b","o","m","-">>)
  THEN fileNameStrategy(toLowerCase(fileName))
  ELSE fromDirScan(dirScan(parts, 1), parts, fileName)

\* parts is path.relative(process.cwd(), filePath).split(path.sep)
extractDatasetId(parts) ==
  resolveId(parts, basename(parts[Len(parts)], extname(parts[Len(parts)])))

-----------------------------------------------------------------------------
(* JSON values read by extractFixedVersions: undefined, a string, an array *)

Undef    == [kind |-> "undefined"]
JNull    == [kind |-> "null"]
Str(t)   == [kind |-> "string", text |-> t]
Num(n)   == [kind |-> "number", num |-> n]
Arr(xs)  == [kind |-> "array", items |-> xs]
Obj(fs)  == [kind |-> "object", fields |-> fs]
\* what the lookup of an inherited property (constructor, __proto__) yields
Inherited == [kind |-> "inherited"]

\* the fields of {}
EmptyFields == <<>>

\* an object literal: a field whose value is Undef is left out
WithField(fs, name, x) == IF x = Undef THEN fs ELSE fs @@ (name :> x)

Fields1(n1, x1) == WithField(EmptyFields, n1, x1)
Fields2(n1, x1, n2, x2) == WithField(Fields1(n1, x1), n2, x2)
Fields3(n1, x1, n2, x2, n3, x3) == WithField(Fields2(n1, x1, n2, x2), n3, x3)
Fields4(n1, x1, n2, x2, n3, x3, n4, x4) ==
  WithField(Fields3(n1, x1, n2, x2, n3, x3), n4, x4)

\* JavaScript truthiness: undefined, null, "" and 0 are falsy
truthy(x) ==
  \/ x.kind \in {"array", "object", "inherited"}
  \/ x.kind = "string" /\ Len(x.text) > 0
  \/ x.kind = "number" /\ x.num # 0

\* x == null
nullish(x) == x.kind \in {"undefined", "null"}

\* the numeric value a subtraction or comparison sees
numOr(x, dflt) == IF x.kind = "number" THEN x.num ELSE dflt

\* a || b
or(a, b) == IF truthy(a) THEN a ELSE b

\* a ?? b
nc(a, b) == IF nullish(a) THEN b ELSE a

\* obj.name for an obj that is not null or undefined, and obj?.name
field(obj, name) ==
  IF obj.kind = "object" /\ name \in DOMAIN obj.fields THEN obj.fields[name] ELSE Undef

fixIndicators ==
  <<<<"u","p","d","a","t","e">>, <<"u","p","g","r","a","d","e">>, <<"p","a","t","c","h">>, <<"f","i","x">>, <<"f","i","x","e","d">>, <<"r","e","s","o","l","v","e","d">>,
    <<"r","e","m","e","d","i","a","t","i","o","n">>, <<"w","o","r","k","a","r","o","u","n","d">>, <<"m","i","t","i","g","a","t","i","o","n">>, <<"s","o","l","u","t","i","o","n">>, <<"c","o","r","r","e","c","t","e","d">>,
    <<"a","d","d","r","e","s","s","e","d">>, <<"v","e","r","s","i","o","n">>, <<"l","a","t","e","s","t">>, <<"n","e","w","e","r">>, <<"c","u","r","r","e","n","t">>>>

hasFixIndicators(text) ==
  /\ Len(text) > 0
  /\ \E k \in 1..Len(fixIndicators) : includes(toLowerCase(text), fixIndicators[k])

\* the body of  for (const source of sources): does this source return ['*']
sourceIndicatesFix(source) ==
  IF source.kind = "array"
  THEN \E k \in 1..Len(source.items) :
         source.items[k].kind = "string" /\ hasFixIndicators(source.items[k].text)
  ELSE source.kind = "string" /\ hasFixIndicators(source.text)

\* Array.isArray(x) ? x : [x]
asList(x) == IF x.kind = "array" THEN x.items ELSE <<x>>

GenericFix == <<Str(<<"*">>)>>

fixSources(v) ==
  <<field(field(v, "analysis"), "response"),
    field(field(v, "analysis"), "justification"),
    field(field(v, "analysis"), "state"),
    field(field(v, "analysis"), "detail"),
    field(field(v, "analysis"), "workaround"),
    field(v, "recommendation"),
    field(v, "solution")>>

extractFixedVersions(v) ==
  IF \E k \in 1..Len(fixSources(v)) : sourceIndicatesFix(fixSources(v)[k])
  THEN GenericFix
  ELSE IF truthy(field(field(v, "analysis"), "fixedIn"))
  THEN asList(field(field(v, "analysis"), "fixedIn"))
  ELSE IF truthy(field(v, "remediation"))
  THEN IF truthy(field(field(v, "remediation"), "versions"))
       THEN asList(field(field(v, "remediation"), "versions"))
       ELSE IF truthy(field(field(v, "remediation"), "workaround"))
       THEN GenericFix
       ELSE <<>>
  ELSE <<>>

-----------------------------------------------------------------------------
(* severityOrder, pickCVSS, licenseNames                                   *)

Ok(x) == [threw |-> FALSE, value |-> x]
Threw == [threw |-> TRUE]

SeverityMap ==
  (<<"c","r","i","t","i","c","a","l">> :> 4) @@ (<<"h","i","g","h">> :> 3) @@ (<<"m","e","d","i","u","m">> :> 2) @@ (<<"l","o","w">> :> 1) @@
  (<<"i","n","f","o">> :> 0) @@ (<<"n","o","n","e">> :> 0) @@ (<<"u","n","k","n","o","w","n">> :> 0)

\* lower-case names every object literal inherits from Object.prototype
InheritedKeys == {<<"c","o","n","s","t","r","u","c","t","o","r">>, <<"_","_","p","r","o","t","o","_","_">>}

\* s is a string (a sequence of characters); "" stands for null as well
severityOrder(s) ==
  LET key == toLowerCase(s)
  IN  IF key \in DOMAIN SeverityMap THEN Num(SeverityMap[key])
      ELSE IF key \in InheritedKeys THEN Inherited
      ELSE Num(0)

\* the text of a string value, "" for a falsy one: (x || '')
textOr(x, dflt) == IF truthy(x) THEN x.text ELSE dflt

\* faulty variant: every usable entry replaces best
pickBetter_last(best, obj) == obj

\* faulty variant: an entry of equal score replaces best
pickBetter_geq(best, obj) ==
  IF best = JNull \/ numOr(obj.score, 0) >= numOr(best.score, 0) THEN obj ELSE best

\* if (!best || (obj.score ?? 0) > (best.score ?? 0)) best = obj
pickBetter(best, obj) ==
  IF best = JNull \/ numOr(obj.score, 0) > numOr(best.score, 0) THEN obj ELSE best

\* the body of the for loop of pickCVSS once score and severity are read
pickEntry(best, r, score, severity) ==
  IF nullish(score) /\ ~truthy(severity) THEN Ok(best)
  ELSE IF truthy(severity) /\ severity.kind # "string" THEN Threw
  ELSE Ok(pickBetter(best,
            [score    |-> nc(score, JNull),
             severity |-> Str(toUpperCase(textOr(severity, <<>>))),
             method   |-> or(or(field(r, "method"), field(r, "source")), JNull)]))

\* one iteration of the for loop of pickCVSS: the new value of best, or a throw
pickStep(best, r) ==
  IF nullish(r) THEN Threw
  ELSE pickEntry(best, r, nc(field(r, "score"), field(r, "baseScore")),
                 or(field(r, "severity"), field(r, "baseSeverity")))

RECURSIVE pickLoop(_, _, _)
pickNext(scores, k, r) == IF r.threw THEN Threw ELSE pickLoop(scores, k + 1, r.value)

pickLoop(scores, k, best) ==
  IF k > Len(scores) THEN Ok(best) ELSE pickNext(scores, k, pickStep(best, scores[k]))

\* scores is a JSON value; a string iterates over characters, none of which
\* has a score; an object or a number is not iterable
pickCVSS(scores) ==
  IF scores.kind = "array" THEN pickLoop(scores.items, 1, JNull)
  ELSE IF scores.kind = "string" THEN Ok(JNull)
  ELSE Threw

RECURSIVE licenseLoop(_, _)
licenseLoop(ls, k) ==
  IF k > Len(ls) THEN <<>>
  ELSE LET l   == ls[k]
           lic == field(l, "license")
           one == IF truthy(field(lic, "id")) THEN <<field(lic, "id")>>
                  ELSE IF truthy(field(lic, "name")) THEN <<field(lic, "name")>>
                  ELSE IF truthy(field(l, "expression")) THEN <<field(l, "expression")>>
                  ELSE <<>>
       IN  one \o licenseLoop(ls, k + 1)

\* entries of the licenses array are objects
licenseNames(licenses) ==
  IF licenses.kind # "array" THEN <<>> ELSE licenseLoop(licenses.items, 1)

-----------------------------------------------------------------------------
(* parseCycloneDX, parseSPDXXML                                            *)

\* the key under which parseCycloneDX indexes component c
componentKey(c) ==
  or(or(or(field(c, "bom-ref"), field(c, "bomRef")), field(c, "purl")),
     Str(textOr(field(c, "name"), <<"c","o","m","p","o","n","e","n","t">>) \o <<"@">>
           \o textOr(field(c, "version"), <<>>)))

\* json.components || [] as a sequence
componentsOf(doc) ==
  IF truthy(field(doc, "components")) THEN field(doc, "components").items ELSE <<>>

\* faulty variant: the first component of a key is kept
componentMap_first(comps) ==
  [key \in {componentKey(comps[k]) : k \in 1..Len(comps)} |->
     comps[CHOOSE k \in 1..Len(comps) :
             /\ componentKey(comps[k]) = key
             /\ \A m \in 1..Len(comps) : componentKey(comps[m]) = key => k <= m]]

\* componentMap after the forEach: a later component replaces an earlier one
componentMap(comps) ==
  [key \in {componentKey(comps[k]) : k \in 1..Len(comps)} |->
     comps[CHOOSE k \in 1..Len(comps) :
             /\ componentKey(comps[k]) = key
             /\ \A m \in 1..Len(comps) : componentKey(comps[m]) = key => m <= k]]

\* xs.map(f).filter(Boolean) for a sequence of already-mapped values
RECURSIVE filterTruthy(_)
filterTruthy(xs) ==
  IF Len(xs) = 0 THEN <<>>
  ELSE (IF truthy(Head(xs)) THEN <<Head(xs)>> ELSE <<>>) \o filterTruthy(Tail(xs))

\* (v.name || []) as a sequence
arrayOr(v, name) ==
  IF truthy(field(v, name)) THEN field(v, name).items ELSE <<>>

\* v.description?.slice(0, 200) || 'Vulnerability'
TitleMax == 200
titleOf(v) ==
  LET d == field(v, "description")
  IN  IF d.kind = "string" /\ Len(d.text) > 0
      THEN Str(SubSeq(d.text, 1, IF Len(d.text) < TitleMax THEN Len(d.text) ELSE TitleMax))
      ELSE Str(<<"V","u","l","n","e","r","a","b","i","l","i","t","y">>)

\* faulty variant: direct only for a component that declares a scope
directOf_declared(c) ==
  /\ truthy(field(c, "scope"))
  /\ toLowerCase(textOr(field(c, "scope"), <<>>)) \notin {<<"o","p","t","i","o","n","a","l">>, <<"t","r","a","n","s","i","t","i","v","e">>}

directOf(c) ==
  LET scope == toLowerCase(textOr(field(c, "scope"), <<>>))
  IN  scope # <<"o","p","t","i","o","n","a","l">> /\ scope # <<"t","r","a","n","s","i","t","i","v","e">>

\* the record pushed for vulnerability v and target ref (JNull for none)
recordFor(v, ref, cmap, dsId, rating, sev) ==
  LET c == IF truthy(ref) /\ ref \in DOMAIN cmap THEN cmap[ref] ELSE Obj(EmptyFields)
  IN  [dataset       |-> dsId,
       id            |-> or(field(v, "id"), JNull),
       title         |-> titleOf(v),
       severity      |-> sev,
       severityRank  |-> severityOrder(sev),
       cvss          |-> IF rating = JNull THEN JNull ELSE nc(rating.score, JNull),
       component     |-> or(field(c, "name"), JNull),
       version       |-> or(field(c, "version"), JNull),
       purl          |-> or(field(c, "purl"), JNull),
       licenses      |-> licenseNames(field(c, "licenses")),
       direct        |-> directOf(c),
       cwes          |-> filterTruthy([k \in 1..Len(arrayOr(v, "cwes")) |->
                            or(field(arrayOr(v, "cwes")[k], "id"), arrayOr(v, "cwes")[k])]),
       urls          |-> filterTruthy([k \in 1..Len(arrayOr(v, "references")) |->
                            field(arrayOr(v, "references")[k], "url")]),
       fixedVersions |-> extractFixedVersions(v)]

\* faulty variant: targets = affects, without the [null] fallback
targetsOf_noFallback(affects) == affects

\* const targets = affects.length ? affects : [null]
targetsOf(affects) == IF Len(affects) > 0 THEN affects ELSE <<JNull>>

\* the records of v once affects, rating and the severity value are known
recordsFor(v, cmap, dsId, targets, rating, sevVal) ==
  IF sevVal.kind # "string" THEN Threw
  ELSE Ok([k \in 1..Len(targets) |->
             recordFor(v, targets[k], cmap, dsId, rating, toUpperCase(sevVal.text))])

\* faulty variant: the severity of the rating goes before the explicit one
severityValue_ratingFirst(v, rating) ==
  or(or(IF rating = JNull THEN Undef ELSE rating.severity, field(v, "severity")),
     Str(<<"U","N","K","N","O","W","N">>))

\* v.severity || rating?.severity || 'UNKNOWN'
severityValue(v, rating) ==
  or(or(field(v, "severity"), IF rating = JNull THEN Undef ELSE rating.severity),
     Str(<<"U","N","K","N","O","W","N">>))

ratedRecords(v, cmap, dsId, affects, picked) ==
  IF picked.threw THEN Threw
  ELSE recordsFor(v, cmap, dsId, targetsOf(affects), picked.value,
                  severityValue(v, picked.value))

\* the records of one vulnerability entry, or a throw (TypeError)
vulnRecords(v, cmap, dsId) ==
  IF nullish(v) THEN Threw
  ELSE IF truthy(field(v, "affects")) /\ field(v, "affects").kind # "array" THEN Threw
  ELSE IF \E k \in 1..Len(arrayOr(v, "affects")) : nullish(arrayOr(v, "affects")[k])
  THEN Threw
  ELSE ratedRecords(v, cmap, dsId,
         filterTruthy([k \in 1..Len(arrayOr(v, "affects")) |->
                         field(arrayOr(v, "affects")[k], "ref")]),
         pickCVSS(or(or(field(v, "ratings"), field(v, "cvss")), Arr(<<>>))))

\* faulty variant: the records built before a throw are returned
RECURSIVE vulLoop_partial(_, _, _, _, _)
vulNext_partial(vs, k, cmap, dsId, vuls, r) ==
  IF r.threw THEN Ok(vuls) ELSE vulLoop_partial(vs, k + 1, cmap, dsId, vuls \o r.value)

vulLoop_partial(vs, k, cmap, dsId, vuls) ==
  IF k > Len(vs) THEN Ok(vuls)
  ELSE vulNext_partial(vs, k, cmap, dsId, vuls, vulnRecords(vs[k], cmap, dsId))

\* for (const v of json.vulnerabilities || []): a throw leaves the function,
\* vuls is a local of it
RECURSIVE vulLoop(_, _, _, _, _)
vulNext(vs, k, cmap, dsId, vuls, r) ==
  IF r.threw THEN Threw ELSE vulLoop(vs, k + 1, cmap, dsId, vuls \o r.value)

vulLoop(vs, k, cmap, dsId, vuls) ==
  IF k > Len(vs) THEN Ok(vuls)
  ELSE vulNext(vs, k, cmap, dsId, vuls, vulnRecords(vs[k], cmap, dsId))

\* the return statement of parseCycloneDX
cycloneReturn(doc, dsId, r) ==
  IF r.threw THEN Threw
  ELSE Ok([dataset         |-> dsId,
           created         |-> or(field(field(doc, "metadata"), "timestamp"), JNull),
           components      |-> Len(componentsOf(doc)),
           vulnerabilities |-> Len(r.value),
           items           |-> r.value])

\* doc is the parsed JSON or YAML document
parseCycloneDX(doc, dsId) ==
  IF nullish(doc) THEN Threw
  ELSE IF truthy(field(doc, "components")) /\ field(doc, "components").kind # "array"
  THEN Threw
  ELSE IF \E k \in 1..Len(componentsOf(doc)) : nullish(componentsOf(doc)[k]) THEN Threw
  ELSE IF truthy(field(doc, "vulnerabilities"))
          /\ field(doc, "vulnerabilities").kind \notin {"array", "string"} THEN Threw
  ELSE cycloneReturn(doc, dsId,
         vulLoop(IF field(doc, "vulnerabilities").kind = "array"
                 THEN field(doc, "vulnerabilities").items ELSE <<>>,
                 1, componentMap(componentsOf(doc)), dsId, <<>>))

parseSPDXXML(content, dsId) ==
  Ok([dataset |-> dsId, created |-> JNull, components |-> 0,
      vulnerabilities |-> 0, items |-> <<>>])

-----------------------------------------------------------------------------
(* String.prototype.localeCompare on dataset ids (root collation):         *)
(* punctuation before digits before letters, letters compared without case *)
(* first, lower case before upper case on a tie                            *)

collationWeight(c) ==
  IF c = "_" THEN 1
  ELSE IF c = "-" THEN 2
  ELSE IF c \in Digits THEN 10 + (charCodeAt(c) - 48)
  ELSE IF c \in DOMAIN LowerTable THEN 100 + (charCodeAt(LowerTable[c]) - 97)
  ELSE IF c \in DOMAIN UpperTable THEN 100 + (charCodeAt(c) - 97)
  ELSE 0

RECURSIVE weightCompare(_, _)
weightCompare(a, b) ==
  IF Len(a) = 0 /\ Len(b) = 0 THEN 0
  ELSE IF Len(a) = 0 THEN -1
  ELSE IF Len(b) = 0 THEN 1
  ELSE IF collationWeight(a[1]) # collationWeight(b[1])
       THEN collationWeight(a[1]) - collationWeight(b[1])
  ELSE weightCompare(Tail(a), Tail(b))

RECURSIVE caseCompare(_, _)
caseCompare(a, b) ==
  IF Len(a) = 0 \/ Len(b) = 0 THEN 0
  ELSE IF a[1] = b[1] THEN caseCompare(Tail(a), Tail(b))
  ELSE IF a[1] \in DOMAIN UpperTable THEN -1 ELSE 1

localeCompare(a, b) ==
  IF weightCompare(a, b) # 0 THEN weightCompare(a, b) ELSE caseCompare(a, b)

datasetCompare(a, b) == localeCompare(a.id, b.id)

-----------------------------------------------------------------------------
(* countSeverities, buildTopCVEs                                           *)

CanonicalSeverities ==
  {<<"C","R","I","T","I","C","A","L">>, <<"H","I","G","H">>, <<"M","E","D","I","U","M">>, <<"L","O","W">>, <<"I","N","F","O">>, <<"U","N","K","N","O","W","N">>}

\* faulty variant: a label outside the six keys is counted as UNKNOWN
severityKey_fallback(it) ==
  IF toUpperCase(it.severity) \in CanonicalSeverities
  THEN toUpperCase(it.severity) ELSE <<"U","N","K","N","O","W","N">>

\* (it.severity || 'UNKNOWN').toUpperCase()
severityKey(it) ==
  toUpperCase(IF Len(it.severity) > 0 THEN it.severity ELSE <<"U","N","K","N","O","W","N">>)

\* acc[s] = (acc[s] || 0) + 1
countAdd(acc, key) ==
  [x \in DOMAIN acc \cup {key} |->
     IF x = key THEN (IF key \in DOMAIN acc THEN acc[key] ELSE 0) + 1 ELSE acc[x]]

RECURSIVE countLoop(_, _, _)
countLoop(items, k, acc) ==
  IF k > Len(items) THEN acc
  ELSE countLoop(items, k + 1, countAdd(acc, severityKey(items[k])))

countSeverities(items) ==
  countLoop(items, 1, [x \in CanonicalSeverities |-> 0])

\* /^CVE-\d{4}-\d{4,}$/.test(it.id || '')
isCveId(id) ==
  /\ id.kind = "string"
  /\ Len(id.text) >= 13
  /\ SubSeq(id.text, 1, 4) = <<"C","V","E","-">>
  /\ isAllDigits(SubSeq(id.text, 5, 8))
  /\ id.text[9] = "-"
  /\ isAllDigits(SubSeq(id.text, 10, Len(id.text)))

NewGroup(id) ==
  [id |-> id, count |-> 0, datasets |-> {}, maxCVSS |-> JNull,
   worstSeverityRank |-> Num(-1)]

\* faulty variant: worstSeverityRank is the rank of the latest item
topUpdate_lastRank(cur, it, rank) ==
  [cur EXCEPT
     !.count    = @ + 1,
     !.datasets = @ \cup {it.dataset},
     !.maxCVSS  = IF nullish(it.cvss) THEN @
                  ELSE IF nullish(@) \/ it.cvss.num > @.num THEN it.cvss ELSE @,
     !.worstSeverityRank = rank]

\* the updates of cur for item it
topUpdate(cur, it, rank) ==
  [cur EXCEPT
     !.count    = @ + 1,
     !.datasets = @ \cup {it.dataset},
     !.maxCVSS  = IF nullish(it.cvss) THEN @
                  ELSE IF nullish(@) \/ it.cvss.num > @.num THEN it.cvss ELSE @,
     !.worstSeverityRank = IF rank.kind = "number" /\ rank.num > @.num THEN rank ELSE @]

\* map.set(id, cur): a Map keeps the insertion order of its keys
topSet(groups, at, upd) ==
  IF at = {} THEN Append(groups, upd)
  ELSE [g \in 1..Len(groups) |-> IF g \in at THEN upd ELSE groups[g]]

topAt(groups, at, it) ==
  topSet(groups, at,
         topUpdate(IF at = {} THEN NewGroup(it.id) ELSE groups[CHOOSE g \in at : TRUE],
                   it, nc(it.severityRank, Num(-1))))

\* one pass of the for loop of buildTopCVEs for an item with a CVE id
topStep(groups, it) ==
  topAt(groups, {g \in 1..Len(groups) : groups[g].id = it.id}, it)

RECURSIVE topLoop(_, _, _)
topLoop(items, k, groups) ==
  IF k > Len(items) THEN groups
  ELSE topLoop(items, k + 1,
               IF isCveId(items[k].id) THEN topStep(groups, items[k]) ELSE groups)

\* a < b in UTF-16 code unit order, the order of Array.prototype.sort()
RECURSIVE codeUnitLess(_, _)
codeUnitLess(a, b) ==
  IF Len(b) = 0 THEN FALSE
  ELSE IF Len(a) = 0 THEN TRUE
  ELSE IF charCodeAt(a[1]) # charCodeAt(b[1]) THEN charCodeAt(a[1]) < charCodeAt(b[1])
  ELSE codeUnitLess(Tail(a), Tail(b))

\* [...set].sort()
RECURSIVE sortedStrings(_)
sortedStrings(S) ==
  IF S = {} THEN <<>>
  ELSE LET m == CHOOSE x \in S : \A y \in S \ {x} : codeUnitLess(x, y)
       IN  <<m>> \o sortedStrings(S \ {m})

\* faulty variant: the count is left out of the comparison
topCompare_noCount(a, b) ==
  IF numOr(b.worstSeverityRank, 0) - numOr(a.worstSeverityRank, 0) # 0
  THEN numOr(b.worstSeverityRank, 0) - numOr(a.worstSeverityRank, 0)
  ELSE numOr(b.maxCVSS, 0) - numOr(a.maxCVSS, 0)

\* the comparator of the sort: negative when a goes first
topCompare(a, b) ==
  LET bySeverity == numOr(b.worstSeverityRank, 0) - numOr(a.worstSeverityRank, 0)
      byCount    == b.count - a.count
      byCVSS     == numOr(b.maxCVSS, 0) - numOr(a.maxCVSS, 0)
  IN  IF bySeverity # 0 THEN bySeverity
      ELSE IF byCount # 0 THEN byCount
      ELSE byCVSS

\* the comparator a sort call passes: "top" in buildTopCVEs, "datasets" in
\* parseSBOMFiles
compareBy(which, a, b) ==
  IF which = "top" THEN topCompare(a, b) ELSE datasetCompare(a, b)

\* x inserted into the sorted sequence xs after every element that does not
\* go after it: Array.prototype.sort is stable
RECURSIVE insertSorted(_, _, _)
insertSorted(xs, x, which) ==
  IF Len(xs) = 0 THEN <<x>>
  ELSE IF compareBy(which, Head(xs), x) <= 0
       THEN <<Head(xs)>> \o insertSorted(Tail(xs), x, which)
  ELSE <<x>> \o xs

\* faulty variant: the array is left in the order of its pushes
stableSort_pushOrder(xs, which) == xs

RECURSIVE stableSort(_, _)
stableSort(xs, which) ==
  IF Len(xs) = 0 THEN <<>>
  ELSE insertSorted(stableSort(SubSeq(xs, 1, Len(xs) - 1), which), xs[Len(xs)], which)

TopLimit == 10

\* the .map(...) of buildTopCVEs: the Set of datasets becomes a sorted array
topEntry(x) ==
  [id                |-> x.id,
   count             |-> x.count,
   datasets          |-> sortedStrings(x.datasets),
   maxCVSS           |-> x.maxCVSS,
   worstSeverityRank |-> x.worstSeverityRank]

mapTopEntries(groups) == [g \in 1..Len(groups) |-> topEntry(groups[g])]

\* faulty variant: no truncation
sliceTop_all(sorted) == sorted

\* .slice(0, 10)
sliceTop(sorted) ==
  SubSeq(sorted, 1, IF Len(sorted) < TopLimit THEN Len(sorted) ELSE TopLimit)

buildTopCVEs(items) ==
  sliceTop(stableSort(mapTopEntries(topLoop(items, 1, <<>>)), "top"))

-----------------------------------------------------------------------------
(* parseSBOM and the body of the for loop of parseSBOMFiles                *)

\* what fs.readFileSync and the JSON / YAML parser make of a file
Unreadable   == [kind |-> "unreadable"]
SyntaxError  == [kind |-> "syntaxError"]
Document(d)  == [kind |-> "document", doc |-> d]

\* the try / catch of parseSBOM around the parser call
caught(cdx) ==
  IF cdx.threw THEN [result |-> JNull, warned |-> TRUE]
  ELSE [result |-> cdx.value, warned |-> FALSE]

\* parseSBOM(content, filePath, datasetId): the returned object or null, and
\* whether its catch logged a warning
parseSBOM(content, parts, dsId) ==
  IF toLowerCase(extname(parts[Len(parts)])) \in {<<".","j","s","o","n">>, <<".","y","a","m","l">>, <<".","y","m","l">>}
  THEN caught(IF content.kind = "document" THEN parseCycloneDX(content.doc, dsId)
              ELSE Threw)
  ELSE IF toLowerCase(extname(parts[Len(parts)])) = <<".","x","m","l">>
  THEN [result |-> parseSPDXXML(content, dsId).value, warned |-> FALSE]
  ELSE [result |-> JNull, warned |-> FALSE]

\* faulty variant: a result without items still gets its datasets entry
fileOutcome_always(file, dsId, p) ==
  [warns    |-> IF p.warned THEN <<[kind |-> "file", file |-> file]>> ELSE <<>>,
   datasets |-> IF p.result # JNull
                THEN <<[id              |-> dsId,
                        created         |-> p.result.created,
                        components      |-> p.result.components,
                        vulnerabilities |-> p.result.vulnerabilities,
                        severityCounts  |-> countSeverities(p.result.items)]>>
                ELSE <<>>,
   items    |-> IF p.result # JNull THEN p.result.items ELSE <<>>]

\* faulty variant: the entry takes the component count as its vulnerabilities
fileOutcome_swapped(file, dsId, p) ==
  [warns    |-> IF p.warned THEN <<[kind |-> "file", file |-> file]>> ELSE <<>>,
   datasets |-> IF p.result # JNull /\ Len(p.result.items) > 0
                THEN <<[id              |-> dsId,
                        created         |-> p.result.created,
                        components      |-> p.result.vulnerabilities,
                        vulnerabilities |-> p.result.components,
                        severityCounts  |-> countSeverities(p.result.items)]>>
                ELSE <<>>,
   items    |-> IF p.result # JNull THEN p.result.items ELSE <<>>]

\* the body of the try of the for loop, after readFileSync: p is what
\* parseSBOM returned
fileOutcome(file, dsId, p) ==
  [warns    |-> IF p.warned THEN <<[kind |-> "file", file |-> file]>> ELSE <<>>,
   datasets |-> IF p.result # JNull /\ Len(p.result.items) > 0
                THEN <<[id              |-> dsId,
                        created         |-> p.result.created,
                        components      |-> p.result.components,
                        vulnerabilities |-> p.result.vulnerabilities,
                        severityCounts  |-> countSeverities(p.result.items)]>>
                ELSE <<>>,
   items    |-> IF p.result # JNull /\ Len(p.result.items) > 0 THEN p.result.items
                ELSE <<>>]

processFile(file, parts, content, dsId) ==
  IF content.kind = "unreadable"
  THEN [warns |-> <<[kind |-> "file", file |-> file]>>, datasets |-> <<>>,
        items |-> <<>>]
  ELSE fileOutcome(file, dsId, parseSBOM(content, parts, dsId))

\* Numbers are IEEE 754 doubles.  A positive double is [bits, exp]: its
\* value is 0.b1 b2 ... b53 (binary, b1 = 1) times 2^exp; every operation
\* rounds to the nearest double, to the even one on a tie.
Precision == 53

\* (r * 2^k) % d, the remainder left after k binary digits of r / d, for
\* 0 <= r < d
RECURSIVE remainderAfter(_, _, _)
remainderAfter(r, d, k) ==
  IF k <= 10 THEN (r * 2^k) % d ELSE remainderAfter((r * 2^10) % d, d, k - 10)

\* the first k binary digits of r / d after the point
binaryDigits(r, d, k) == [i \in 1..k |-> (2 * remainderAfter(r, d, i - 1)) \div d]

\* the number of zeros before the first 1 of the digits of r / d, 0 < r < d
RECURSIVE leadingZeros(_, _)
leadingZeros(r, d) == IF 2 * r >= d THEN 0 ELSE 1 + leadingZeros(2 * r, d)

\* bits + 1; a carry out of the first bit makes the sequence one bit longer
increment(bits) ==
  IF \A i \in 1..Len(bits) : bits[i] = 1
  THEN <<1>> \o [i \in 1..Len(bits) |-> 0]
  ELSE [i \in 1..Len(bits) |->
          IF \A k \in (i + 1)..Len(bits) : bits[k] = 1 THEN 1 - bits[i] ELSE bits[i]]

\* the double of Precision bits from the rounded bits
normalize(bits, exp) ==
  IF Len(bits) > Precision
  THEN [bits |-> SubSeq(bits, 1, Precision), exp |-> exp + 1]
  ELSE [bits |-> bits, exp |-> exp]

roundedDigits(bits, rest, d) ==
  IF 2 * rest > d \/ (2 * rest = d /\ bits[Precision] = 1) THEN increment(bits) ELSE bits

divideAt(n, d, z) ==
  normalize(roundedDigits(binaryDigits(n * 2^z, d, Precision),
                          remainderAfter(n * 2^z, d, Precision), d), -z)

\* n / d as a double, for integers 0 < n < d
divide(n, d) == divideAt(n, d, leadingZeros(n, d))

zeros(n) == [k \in 1..n |-> 0]

\* the carry into position i of a + b, for two sequences of the same length
carryInto(a, b, i) ==
  IF \E j \in (i + 1)..Len(a) :
       /\ a[j] + b[j] = 2
       /\ \A k \in (i + 1)..(j - 1) : a[k] + b[k] = 1
  THEN 1 ELSE 0

addBits(a, b) ==
  <<carryInto(a, b, 0)>>
    \o [i \in 1..Len(a) |-> (a[i] + b[i] + carryInto(a, b, i)) % 2]

RECURSIVE stripZeros(_)
stripZeros(bits) == IF Len(bits) > 0 /\ bits[1] = 0 THEN stripZeros(Tail(bits)) ELSE bits

padTo(bits, n) == IF Len(bits) < n THEN zeros(n - Len(bits)) \o bits ELSE bits

sumBits(a, b) == stripZeros(addBits(padTo(a, Len(b)), padTo(b, Len(a))))

\* the exact product 100 * bits = (64 + 32 + 4) * bits
times100(bits) ==
  sumBits(bits \o zeros(6), sumBits(bits \o zeros(5), bits \o zeros(2)))

\* product rounded to Precision bits
roundedProduct(product) ==
  IF /\ product[Precision + 1] = 1
     /\ \/ \E k \in (Precision + 2)..Len(product) : product[k] = 1
        \/ product[Precision] = 1
  THEN increment(SubSeq(product, 1, Precision))
  ELSE SubSeq(product, 1, Precision)

multiplyAt(x, product) ==
  normalize(roundedProduct(product), x.exp + Len(product) - Precision)

\* 100 * x as a double
multiply100(x) == multiplyAt(x, times100(x.bits))

RECURSIVE toInt(_)
toInt(bits) ==
  IF Len(bits) = 0 THEN 0 ELSE 2 * toInt(SubSeq(bits, 1, Len(bits) - 1)) + bits[Len(bits)]

\* Math.round(x): the integer nearest to x, the greater one on a tie
mathRound(x) ==
  IF x.exp < 0 THEN 0 ELSE toInt(SubSeq(x.bits, 1, x.exp)) + x.bits[x.exp + 1]

\* Math.round(100 * (n / total)) for 0 <= n <= total, total > 0
roundPercent(n, total) ==
  IF n = 0 THEN 0
  ELSE IF n = total THEN 100
  ELSE mathRound(multiply100(divide(n, total)))

hasFix(it) == Len(it.fixedVersions) > 0

Now == Str(<<"2","0","2","4","-","0","1","-","1","5","T","0","0",":","0","0",":","0","0",".","0","0","0","Z">>)

\* the object parseSBOMFiles returns after its loop
parseResult(dsets, items) ==
  [generatedAt |-> Now,
   datasets    |-> stableSort(dsets, "datasets"),
   items       |-> items,
   overall     |-> [total |-> Len(items), severityCounts |-> countSeverities(items)],
   metrics     |-> [fixAvailabilityRate |->
                      IF Len(items) > 0
                      THEN roundPercent(Len(SelectSeq(items, hasFix)), Len(items))
                      ELSE 0,
                    topCVEs |-> buildTopCVEs(items)]]

SampleSeverityCounts ==
  (<<"C","R","I","T","I","C","A","L">> :> 1) @@ (<<"H","I","G","H">> :> 2) @@ (<<"M","E","D","I","U","M">> :> 0) @@ (<<"L","O","W">> :> 0) @@
  (<<"I","N","F","O">> :> 0) @@ (<<"U","N","K","N","O","W","N">> :> 0)

SampleItem(id, title, severity, rank, cvss, component, version, purl, license, fixed) ==
  [dataset |-> <<"s","a","m","p","l","e">>, id |-> Str(id), title |-> Str(title), severity |-> severity,
   severityRank |-> Num(rank), cvss |-> Num(cvss), component |-> Str(component),
   version |-> Str(version), purl |-> Str(purl), licenses |-> <<Str(license)>>,
   direct |-> TRUE, cwes |-> <<>>, urls |-> <<>>, fixedVersions |-> fixed]

SampleTop(id, cvss, rank) ==
  [id |-> Str(id), count |-> 1, datasets |-> <<<<"s","a","m","p","l","e">>>>, maxCVSS |-> Num(cvss),
   worstSeverityRank |-> Num(rank)]

\* faulty variant: the two topCVEs entries of the fixture in the other order
sampleData_swappedTop ==
  [generatedAt |-> Now,
   datasets    |-> <<[id |-> <<"s","a","m","p","l","e">>, created |-> Now, components |-> 5,
                      vulnerabilities |-> 3, severityCounts |-> SampleSeverityCounts]>>,
   items       |-> <<SampleItem(<<"C","V","E","-","2","0","2","4","-","1","2","3","4","5">>, <<"S","a","m","p","l","e"," ","C","r","i","t","i","c","a","l"," ","V","u","l","n","e","r","a","b","i","l","i","t","y">>,
                                <<"C","R","I","T","I","C","A","L">>, 4, 98, <<"s","a","m","p","l","e","-","l","i","b","r","a","r","y">>, <<"1",".","0",".","0">>,
                                <<"p","k","g",":","n","p","m","/","s","a","m","p","l","e","-","l","i","b","r","a","r","y","@","1",".","0",".","0">>, <<"M","I","T">>, <<>>),
                     SampleItem(<<"C","V","E","-","2","0","2","4","-","1","2","3","4","6">>, <<"S","a","m","p","l","e"," ","H","i","g","h"," ","V","u","l","n","e","r","a","b","i","l","i","t","y">>,
                                <<"H","I","G","H">>, 3, 75, <<"a","n","o","t","h","e","r","-","l","i","b","r","a","r","y">>, <<"2",".","1",".","0">>,
                                <<"p","k","g",":","n","p","m","/","a","n","o","t","h","e","r","-","l","i","b","r","a","r","y","@","2",".","1",".","0">>, <<"A","p","a","c","h","e","-","2",".","0">>,
                                <<Str(<<"2",".","2",".","0">>)>>)>>,
   overall     |-> [total |-> 3, severityCounts |-> SampleSeverityCounts],
   metrics     |-> [fixAvailabilityRate |-> 33,
                    topCVEs |-> <<SampleTop(<<"C","V","E","-","2","0","2","4","-","1","2","3","4","6">>, 75, 3),
                                  SampleTop(<<"C","V","E","-","2","0","2","4","-","1","2","3","4","5">>, 98, 4)>>]]

\* the literal createSampleData writes
sampleData ==
  [generatedAt |-> Now,
   datasets    |-> <<[id |-> <<"s","a","m","p","l","e">>, created |-> Now, components |-> 5,
                      vulnerabilities |-> 3, severityCounts |-> SampleSeverityCounts]>>,
   items       |-> <<SampleItem(<<"C","V","E","-","2","0","2","4","-","1","2","3","4","5">>, <<"S","a","m","p","l","e"," ","C","r","i","t","i","c","a","l"," ","V","u","l","n","e","r","a","b","i","l","i","t","y">>,
                                <<"C","R","I","T","I","C","A","L">>, 4, 98, <<"s","a","m","p","l","e","-","l","i","b","r","a","r","y">>, <<"1",".","0",".","0">>,
                                <<"p","k","g",":","n","p","m","/","s","a","m","p","l","e","-","l","i","b","r","a","r","y","@","1",".","0",".","0">>, <<"M","I","T">>, <<>>),
                     SampleItem(<<"C","V","E","-","2","0","2","4","-","1","2","3","4","6">>, <<"S","a","m","p","l","e"," ","H","i","g","h"," ","V","u","l","n","e","r","a","b","i","l","i","t","y">>,
                                <<"H","I","G","H">>, 3, 75, <<"a","n","o","t","h","e","r","-","l","i","b","r","a","r","y">>, <<"2",".","1",".","0">>,
                                <<"p","k","g",":","n","p","m","/","a","n","o","t","h","e","r","-","l","i","b","r","a","r","y","@","2",".","1",".","0">>, <<"A","p","a","c","h","e","-","2",".","0">>,
                                <<Str(<<"2",".","2",".","0">>)>>)>>,
   overall     |-> [total |-> 3, severityCounts |-> SampleSeverityCounts],
   metrics     |-> [fixAvailabilityRate |-> 33,
                    topCVEs |-> <<SampleTop(<<"C","V","E","-","2","0","2","4","-","1","2","3","4","5">>, 98, 4),
                                  SampleTop(<<"C","V","E","-","2","0","2","4","-","1","2","3","4","6">>, 75, 3)>>]]

-----------------------------------------------------------------------------
(* Idle values of the variables an operation does not use                  *)

IdleDs    == filePath = <<>> /\ datasetId = <<>>
IdleFix   == vulnerability = <<>> /\ fixedVersions = <<>>
IdleParse == json = <<>> /\ parsed = <<>>
IdleCall  == arg = <<>> /\ ret = <<>>
IdleView  == view = <<>> /\ hash = <<>> /\ sbom_view = <<>> /\ savedFilters = <<>> /\ clicks = 0
IdleUI    == IdleView /\ app = <<>> /\ window = <<>>
IdleRun   ==
  /\ patterns = <<>> /\ sbomFiles = <<>> /\ fileIdx = 0
  /\ datasets = <<>> /\ allItems = <<>> /\ warnings = <<>> /\ parsedData = <<>>
  /\ outputFiles = <<>> /\ writes = <<>> /\ failed = FALSE /\ failedBy = "none"
  /\ outputs = {}

-----------------------------------------------------------------------------
(* SpecDataset: extractDatasetId called on one path, MaxCalls times         *)

\* longest directory prefix of the enumerated paths
MaxDepth == 2
\* number of calls on the same path
MaxCalls == 2

DirNames == {<<"r","e","p","o","r","t","s">>, <<"s","r","c">>, <<"x">>, <<"p","r","o","d","-","e","u">>, <<"M","y"," ","A","p","p">>, <<"1","2","3">>}

\* file names with the Trivy prefix
SbomNames ==
  {<<"s","b","o","m","-","b","a","c","k","e","n","d","-","a","m","d","6","4",".","c","y","c","l","o","n","e","d","x",".","j","s","o","n">>, <<"s","b","o","m","-","m","y","a","p","p",".","c","y","c","l","o","n","e","d","x",".","j","s","o","n">>,
   <<"s","b","o","m","-","s","t","a","b","l","e","-","a","r","m","6","4",".","j","s","o","n">>, <<"s","b","o","m","-","a","r","m","6","4","-","b","a","c","k","e","n","d",".","j","s","o","n">>, <<"s","b","o","m","-","a","m","d","6","4",".","j","s","o","n">>,
   <<"s","b","o","m","-","f","r","o","n","t","e","n","d","-","a","m","d","6","4",".","y","a","m","l">>, <<"s","b","o","m","-","b","a","c","k","e","n","d",".","j","s","o","n">>, <<"S","B","O","M","-","F","r","o","n","t","e","n","d",".","j","s","o","n">>,
   <<"s","b","o","m","-","m","y"," ","a","p","p",".","j","s","o","n">>, <<"s","b","o","m","-",".","j","s","o","n">>}

OtherNames == {<<"s","b","o","m",".","j","s","o","n">>, <<"a","b",".","j","s","o","n">>, <<"r","e","p","o","r","t"," ","v","1",".","j","s","o","n">>}

RECURSIVE SeqsUpTo(_, _)
SeqsUpTo(S, n) ==
  IF n = 0 THEN {<<>>}
  ELSE SeqsUpTo(S, n - 1) \cup
       {Append(q, x) : q \in {r \in SeqsUpTo(S, n - 1) : Len(r) = n - 1}, x \in S}

\* relative paths: an sbom- file under at most one directory, another file
\* under at most MaxDepth directories
PathUniverse ==
  {d \o <<f>> : d \in SeqsUpTo(DirNames, 1), f \in SbomNames}
  \cup {d \o <<f>> : d \in SeqsUpTo(DirNames, MaxDepth), f \in OtherNames}

InitDataset ==
  /\ pc = "extractDatasetId"
  /\ filePath \in PathUniverse
  /\ datasetId = <<>>
  /\ IdleFix /\ IdleParse /\ IdleCall /\ IdleRun /\ IdleUI

\* one call of extractDatasetId(filePath); datasetId lists the ids returned so far
ExtractDatasetId ==
  /\ pc = "extractDatasetId"
  /\ Len(datasetId) < MaxCalls
  /\ datasetId' = Append(datasetId, extractDatasetId(filePath))
  /\ UNCHANGED <<pc, filePath, fixVars, parseVars, callVars, uiVars, runVars>>

NextDataset == ExtractDatasetId

SpecDataset == InitDataset /\ [][NextDataset]_vars

-----------------------------------------------------------------------------
(* Claims about extractDatasetId                                           *)

FileNameOf(parts)      == basename(parts[Len(parts)], extname(parts[Len(parts)]))
FileNameLowerOf(parts) == toLowerCase(FileNameOf(parts))

Strategy1Applies(parts) == startsWith(FileNameLowerOf(parts), <<"s","b","o","m","-">>)
Strategy2Hits(parts) ==
  {k \in 1..(Len(parts) - 1) : dirStrategy(toLowerCase(parts[k])).found}
Strategy2Applies(parts) == Strategy2Hits(parts) # {}
Strategy3Applies(parts) ==
  Len(FileNameOf(parts)) > 2 /\ FileNameLowerOf(parts) \notin GenericFileNames
Strategy4Applies(parts) == Len(parts) > 1 /\ Len(parts[Len(parts) - 1]) > 2

Strategy2Result(parts) ==
  LET k == CHOOSE m \in Strategy2Hits(parts) : \A n \in Strategy2Hits(parts) : m <= n
  IN  dirStrategy(toLowerCase(parts[k])).id

FirstApplicable(parts) ==
  IF Strategy1Applies(parts) THEN 1
  ELSE IF Strategy2Applies(parts) THEN 2
  ELSE IF Strategy3Applies(parts) THEN 3
  ELSE IF Strategy4Applies(parts) THEN 4
  ELSE 5

\* C7: the id returned for a path is the result of the first strategy, in the
\* order filename pattern, directory scan, bare filename, parent directory,
\* hash, that applies to the path.
C7_FirstStrategyWins ==
  \A c \in 1..Len(datasetId) :
    LET id == datasetId[c]
        n  == FirstApplicable(filePath)
    IN  /\ n = 1 => id = fileNameStrategy(FileNameLowerOf(filePath))
        /\ n = 2 => id = Strategy2Result(filePath)
        /\ n = 3 => id = sanitize(FileNameOf(filePath))
        /\ n = 4 => id = sanitize(filePath[Len(filePath) - 1])
        /\ n = 5 => startsWith(id, <<"d","a","t","a","s","e","t","-">>)

\* a path where the directory scan and the bare file name both apply and
\* give different ids
C7_Witness ==
  /\ Len(datasetId) > 0
  /\ filePath = <<<<"r","e","p","o","r","t","s">>, <<"r","e","p","o","r","t"," ","v","1",".","j","s","o","n">>>>
  /\ datasetId[1] = <<"r","e","p","o","r","t","s">>

\* the keyword table of strategy 1, in the order the claim gives
KeywordTable ==
  << <<<<"s","t","a","b","l","e">>, <<>>, <<"s","t","a","b","l","e">>>>,
     <<<<"a","r","m","6","4">>, <<>>, <<"a","r","m","6","4">>>>,
     <<<<"a","m","d","6","4">>, <<"b","a","c","k","e","n","d">>, <<"b","a","c","k","e","n","d","-","a","m","d","6","4">>>>,
     <<<<"a","m","d","6","4">>, <<"f","r","o","n","t","e","n","d">>, <<"f","r","o","n","t","e","n","d","-","a","m","d","6","4">>>>,
     <<<<"a","m","d","6","4">>, <<>>, <<"a","m","d","6","4">>>>,
     <<<<"b","a","c","k","e","n","d">>, <<>>, <<"b","a","c","k","e","n","d">>>>,
     <<<<"f","r","o","n","t","e","n","d">>, <<>>, <<"f","r","o","n","t","e","n","d">>>> >>

KeywordRows(name) ==
  {r \in 1..Len(KeywordTable) :
     /\ includes(name, KeywordTable[r][1])
     /\ KeywordTable[r][2] # <<>> => includes(name, KeywordTable[r][2])}

\* C8: for a basename starting with sbom-, the first matching row of the
\* keyword table (stable, arm64, amd64 refined by backend/frontend, backend,
\* frontend) is the dataset id; reports/sbom-backend-amd64.cyclonedx.json
\* resolves to backend-amd64.
C8_KeywordOrder ==
  \A c \in 1..Len(datasetId) :
    /\ (Strategy1Applies(filePath) /\ KeywordRows(FileNameLowerOf(filePath)) # {})
         => LET rows == KeywordRows(FileNameLowerOf(filePath))
                r    == CHOOSE m \in rows : \A n \in rows : m <= n
            IN  datasetId[c] = KeywordTable[r][3]
    /\ filePath = <<<<"r","e","p","o","r","t","s">>, <<"s","b","o","m","-","b","a","c","k","e","n","d","-","a","m","d","6","4",".","c","y","c","l","o","n","e","d","x",".","j","s","o","n">>>>
         => datasetId[c] = <<"b","a","c","k","e","n","d","-","a","m","d","6","4">>

C8_Witness ==
  /\ Len(datasetId) > 0
  /\ filePath = <<<<"r","e","p","o","r","t","s">>, <<"s","b","o","m","-","b","a","c","k","e","n","d","-","a","m","d","6","4",".","c","y","c","l","o","n","e","d","x",".","j","s","o","n">>>>
  /\ datasetId[1] = <<"b","a","c","k","e","n","d","-","a","m","d","6","4">>

\* the name the claim describes: sbom- prefix and trailing .cyclonedx removed
CleanedName(name) ==
  LET rest == SubSeq(name, Len(<<"s","b","o","m","-">>) + 1, Len(name))
  IN  IF endsWith(rest, <<".","c","y","c","l","o","n","e","d","x">>)
      THEN SubSeq(rest, 1, Len(rest) - Len(<<".","c","y","c","l","o","n","e","d","x">>))
      ELSE rest

\* C9: for a basename starting with sbom- that matches no keyword, the id is
\* the name without the sbom- prefix and without a trailing .cyclonedx,
\* sanitized; sbom-myapp.cyclonedx.json resolves to myapp.
C9_CleanedName ==
  \A c \in 1..Len(datasetId) :
    (Strategy1Applies(filePath) /\ KeywordRows(FileNameLowerOf(filePath)) = {})
      => datasetId[c] = sanitize(CleanedName(FileNameLowerOf(filePath)))

\* the rolling hash h = 31*h + code, wrapped to 32 bits, on 16-bit limbs
RECURSIVE RollingHash32(_, _, _)
RollingHash32(str, k, h) ==
  IF k > Len(str) THEN h
  ELSE LET lo == h[2] * 31 + charCodeAt(str[k])
           hi == h[1] * 31 + lo \div W16
       IN  RollingHash32(str, k + 1, <<hi % W16, lo % W16>>)

Base36Chars == {Base36Digits[k] : k \in 1..Len(Base36Digits)}

-----------------------------------------------------------------------------
(* SpecFix: extractFixedVersions applied to one vulnerability              *)

ResponseValues ==
  {Undef, Arr(<<>>), Arr(<<Str(<<"u","p","d","a","t","e">>)>>), Arr(<<Str(<<"w","i","l","l","_","n","o","t","_","f","i","x">>)>>),
   Arr(<<Str(<<"r","o","l","l","b","a","c","k">>), Str(<<"w","o","r","k","a","r","o","u","n","d","_","a","v","a","i","l","a","b","l","e">>)>>)}
StateValues     == {Undef, Str(<<"e","x","p","l","o","i","t","a","b","l","e">>), Str(<<"r","e","s","o","l","v","e","d">>)}
DetailValues    == {Undef, Str(<<"U","p","g","r","a","d","e"," ","t","o"," ","2",".","0">>), Str(<<"n","o"," ","a","c","t","i","o","n">>)}
RecommendValues == {Undef, Str(<<"U","s","e"," ","t","h","e"," ","L","A","T","E","S","T"," ","b","u","i","l","d">>)}
FixedInValues   ==
  {Undef, Str(<<>>), Str(<<"1",".","2",".","3">>), Arr(<<Str(<<"1",".","2",".","3">>), Str(<<"2",".","0",".","0">>)>>)}
VersionsValues  == {Undef, Str(<<"3",".","1",".","0">>), Arr(<<Str(<<"3",".","1",".","0">>)>>)}
WorkaroundValues == {Undef, Str(<<"d","i","s","a","b","l","e"," ","f","e","a","t","u","r","e">>)}

AnalysisValues ==
  {Undef} \cup
  {Obj(WithField(WithField(WithField(WithField(EmptyFields,
        "response", r), "state", st), "detail", d), "fixedIn", f)) :
     r \in ResponseValues, st \in StateValues, d \in DetailValues, f \in FixedInValues}

RemediationValues ==
  {Undef} \cup
  {Obj(WithField(WithField(EmptyFields, "versions", vs), "workaround", w)) :
     vs \in VersionsValues, w \in WorkaroundValues}

FixVulnerabilities ==
  {Obj(WithField(WithField(WithField(EmptyFields,
        "analysis", a), "recommendation", rc), "remediation", rm)) :
     a \in AnalysisValues, rc \in RecommendValues, rm \in RemediationValues}

InitFix ==
  /\ pc = "extractFixedVersions"
  /\ vulnerability \in FixVulnerabilities
  /\ fixedVersions = <<>>
  /\ IdleDs /\ IdleParse /\ IdleCall /\ IdleRun /\ IdleUI

ExtractFixedVersions ==
  /\ pc = "extractFixedVersions"
  /\ fixedVersions' = extractFixedVersions(vulnerability)
  /\ pc' = "returned"
  /\ UNCHANGED <<vulnerability, dsVars, parseVars, callVars, uiVars, runVars>>

NextFix == ExtractFixedVersions

SpecFix == InitFix /\ [][NextFix]_vars

\* some scanned free-text field of v carries a fix-indicating keyword
CarriesFixKeyword(v) ==
  \E name \in {"response", "justification", "state", "detail", "workaround"} :
       sourceIndicatesFix(field(field(v, "analysis"), name))
  \/ sourceIndicatesFix(field(v, "recommendation"))
  \/ sourceIndicatesFix(field(v, "solution"))

HasExplicitFix(v) ==
  \/ truthy(field(field(v, "analysis"), "fixedIn"))
  \/ truthy(field(field(v, "remediation"), "versions"))

ExplicitFix(v) ==
  IF truthy(field(field(v, "analysis"), "fixedIn"))
  THEN asList(field(field(v, "analysis"), "fixedIn"))
  ELSE asList(field(field(v, "remediation"), "versions"))

\* C6: a vulnerability with a fix keyword in a scanned field and an explicit
\* analysis.fixedIn or remediation.versions value gets the explicit value,
\* as a list, not the generic marker ["*"].
C6_ExplicitPreferred ==
  (pc = "returned" /\ CarriesFixKeyword(vulnerability) /\ HasExplicitFix(vulnerability))
    => fixedVersions = ExplicitFix(vulnerability)

-----------------------------------------------------------------------------
(* SpecParse: parseCycloneDX applied to one document                       *)

\* longest vulnerabilities array of the enumerated documents
MaxVulns == 2
\* longest affects array of an enumerated vulnerability
MaxAffects == 2

LibA == Obj(Fields4("bom-ref", Str(<<"p","k","g",":","a">>), "name", Str(<<"l","i","b","a">>),
                    "version", Str(<<"1",".","0">>), "scope", Str(<<"O","p","t","i","o","n","a","l">>)))
LibB == Obj(Fields3("purl", Str(<<"p","k","g",":","b">>), "name", Str(<<"l","i","b","b">>),
                    "licenses", Arr(<<Obj(Fields1("license", Obj(Fields1("id", Str(<<"M","I","T">>)))))>>)))

\* an affects entry: a known ref, no usable ref
AffectEntries == {Obj(Fields1("ref", Str(<<"p","k","g",":","a">>))), Obj(Fields1("ref", Str(<<>>)))}

\* an affects entry with a ref no component has
UnknownRef == Obj(Fields1("ref", Str(<<"z","z">>)))

AffectsValues == {Undef} \cup {Arr(q) : q \in SeqsUpTo(AffectEntries, MaxAffects)}

CriticalRating == Obj(Fields2("baseScore", Num(91), "baseSeverity", Str(<<"C","R","I","T","I","C","A","L">>)))

HighRating == Obj(Fields2("score", Num(75), "severity", Str(<<"H","i","g","h">>)))

\* each shape of affects under an explicit severity; a rating alone, an
\* explicit severity beside a rating, a score without severity, neither
ParseVulnerabilities ==
  {Obj(Fields3("id", Str(<<"C","V","E","-","2","0","2","4","-","1","1","1","1">>), "severity", Str(<<"c","r","i","t","i","c","a","l">>), "affects", a)) :
     a \in AffectsValues}
  \cup
  {Obj(Fields3("id", Str(<<"G","H","S","A","-","x","x">>), "ratings", Arr(<<CriticalRating>>), "affects", a)) :
     a \in {Undef, Arr(<<UnknownRef, Obj(Fields1("ref", Str(<<"p","k","g",":","b">>)))>>)}}
  \cup
  {Obj(Fields3("id", Str(<<"C","V","E","-","2","0","2","4","-","3","3","3","3">>), "severity", Str(<<"l","o","w">>),
               "ratings", Arr(<<HighRating>>))),
   Obj(Fields2("id", Str(<<"C","V","E","-","2","0","2","4","-","4","4","4","4">>), "cvss", Arr(<<Obj(Fields1("score", Num(50)))>>))),
   Obj(Fields1("id", Str(<<"X","-","1">>)))}

\* longest components array of the enumerated documents
MaxComponents == 2

\* components that derive the key pkg:a from bomRef and from purl, one with
\* the purl pkg:a behind another bom-ref, and two that derive liba@1.0
LibA2 == Obj(Fields4("bomRef", Str(<<"p","k","g",":","a">>), "name", Str(<<"l","i","b","a","-","n","e","w">>),
                     "version", Str(<<"2",".","0">>), "purl", Str(<<"p","k","g",":","x">>)))
LibP  == Obj(Fields3("purl", Str(<<"p","k","g",":","a">>), "name", Str(<<"l","i","b","p">>),
                     "licenses", Arr(<<Obj(Fields1("expression", Str(<<"M","I","T">>)))>>)))
LibC  == Obj(Fields3("bom-ref", Str(<<"p","k","g",":","c">>), "purl", Str(<<"p","k","g",":","a">>), "name", Str(<<"l","i","b","c">>)))
LibS  == Obj(Fields3("name", Str(<<"l","i","b","a">>), "version", Str(<<"1",".","0">>),
                     "scope", Str(<<"t","r","a","n","s","i","t","i","v","e">>)))
LibR  == Obj(Fields2("bom-ref", Str(<<"l","i","b","a","@","1",".","0">>), "name", Str(<<"o","t","h","e","r">>)))

JoinComponents == {LibA, LibA2, LibP, LibC, LibS, LibR}

\* a vulnerability of three refs: pkg:a, liba@1.0, and pkg:x, which is a purl
\* of LibA2 and the key of no component
JoinVulnerability ==
  Obj(Fields3("id", Str(<<"C","V","E","-","2","0","2","4","-","5","5","5","5">>), "severity", Str(<<"h","i","g","h">>),
              "affects", Arr(<<Obj(Fields1("ref", Str(<<"p","k","g",":","a">>))),
                               Obj(Fields1("ref", Str(<<"l","i","b","a","@","1",".","0">>))),
                               Obj(Fields1("ref", Str(<<"p","k","g",":","x">>)))>>)))

ParseDocuments ==
  {Obj(Fields2("components", Arr(<<LibA, LibB>>), "vulnerabilities", Arr(vs))) :
     vs \in SeqsUpTo(ParseVulnerabilities, MaxVulns)}
  \cup
  {Obj(Fields2("components", Arr(cs), "vulnerabilities", Arr(<<JoinVulnerability>>))) :
     cs \in SeqsUpTo(JoinComponents, MaxComponents)}

InitParse ==
  /\ pc = "parseCycloneDX"
  /\ json \in ParseDocuments
  /\ parsed = <<>>
  /\ IdleDs /\ IdleFix /\ IdleCall /\ IdleRun /\ IdleUI

ParseCycloneDX ==
  /\ pc = "parseCycloneDX"
  /\ parsed' = parseCycloneDX(json, <<"d","s">>)
  /\ pc' = "returned"
  /\ UNCHANGED <<json, dsVars, fixVars, callVars, uiVars, runVars>>

NextParse == ParseCycloneDX

SpecParse == InitParse /\ [][NextParse]_vars

\* the usable refs of vulnerability v: the truthy ref of each affects entry
UsableRefs(v) ==
  LET es == arrayOr(v, "affects")
  IN  filterTruthy([k \in 1..Len(es) |-> field(es[k], "ref")])

RecordsDue(v) == IF Len(UsableRefs(v)) > 0 THEN Len(UsableRefs(v)) ELSE 1

\* the number of records due to the first k vulnerabilities of vs
RECURSIVE RecordsBefore(_, _)
RecordsBefore(vs, k) ==
  IF k = 0 THEN 0 ELSE RecordsBefore(vs, k - 1) + RecordsDue(vs[k])

\* the name of the component indexed under ref among comps, JNull for none
ComponentNamed(comps, ref) ==
  IF \E k \in 1..Len(comps) : componentKey(comps[k]) = ref
  THEN LET k == CHOOSE m \in 1..Len(comps) :
                  /\ componentKey(comps[m]) = ref
                  /\ \A n \in 1..Len(comps) : componentKey(comps[n]) = ref => n <= m
       IN  or(field(comps[k], "name"), JNull)
  ELSE JNull

\* C1: parseCycloneDX emits one record per (vulnerability, usable affected
\* ref) pair, in order, and one record with component null for a
\* vulnerability without usable ref: the number of records is the sum over
\* the vulnerabilities of max(1, number of usable refs).
C1_OneRecordPerPair ==
  pc = "returned" =>
    LET vs    == arrayOr(json, "vulnerabilities")
        items == parsed.value.items
    IN  /\ ~parsed.threw
        /\ Len(items) = RecordsBefore(vs, Len(vs))
        /\ parsed.value.vulnerabilities = Len(items)
        /\ \A k \in 1..Len(vs) :
             LET off  == RecordsBefore(vs, k - 1)
                 refs == UsableRefs(vs[k])
             IN  /\ \A j \in 1..RecordsDue(vs[k]) :
                       items[off + j].id = or(field(vs[k], "id"), JNull)
                 /\ Len(refs) = 0 => items[off + 1].component = JNull
                 /\ \A j \in 1..Len(refs) :
                       items[off + j].component =
                         ComponentNamed(componentsOf(json), refs[j])

\* a document with a vulnerability without usable ref followed by one with
\* two refs: 3 records
C1_Witness ==
  /\ pc = "returned"
  /\ Len(arrayOr(json, "vulnerabilities")) = 2
  /\ Len(UsableRefs(arrayOr(json, "vulnerabilities")[1])) = 0
  /\ Len(arrayOr(arrayOr(json, "vulnerabilities")[1], "affects")) = 1
  /\ Len(UsableRefs(arrayOr(json, "vulnerabilities")[2])) = 2
  /\ Len(parsed.value.items) = 3
  /\ parsed.value.items[1].component = JNull
  /\ parsed.value.items[2].component = Str(<<"l","i","b","a">>)

\* the rating pickCVSS chooses for v, JNull for none
ChosenRating(v) ==
  pickCVSS(or(or(field(v, "ratings"), field(v, "cvss")), Arr(<<>>))).value

\* the severity the claim resolves for v: explicit, else of the chosen
\* rating, else UNKNOWN, in upper case
ResolvedSeverity(v) ==
  toUpperCase(IF truthy(field(v, "severity")) THEN field(v, "severity").text
              ELSE IF ChosenRating(v) # JNull /\ truthy(ChosenRating(v).severity)
                   THEN ChosenRating(v).severity.text
              ELSE <<"U","N","K","N","O","W","N">>)

\* C12: the severity of each record is the explicit severity of its
\* vulnerability, else the severity of the rating pickCVSS chose, else
\* UNKNOWN, in upper case; severityRank is severityOrder of it; cvss is the
\* score of the chosen rating or null.
C12_SeverityResolution ==
  pc = "returned" =>
    LET vs == arrayOr(json, "vulnerabilities")
    IN  \A k \in 1..Len(vs) :
          \A j \in 1..RecordsDue(vs[k]) :
            LET it == parsed.value.items[RecordsBefore(vs, k - 1) + j]
            IN  /\ it.severity = ResolvedSeverity(vs[k])
                /\ it.severityRank = severityOrder(ResolvedSeverity(vs[k]))
                /\ it.cvss = IF ChosenRating(vs[k]) = JNull THEN JNull
                              ELSE nc(ChosenRating(vs[k]).score, JNull)

\* a vulnerability with the one rating {baseScore 9.1, baseSeverity CRITICAL}
\* and no severity, after one with an explicit severity beside a rating
C12_Witness ==
  /\ pc = "returned"
  /\ Len(arrayOr(json, "vulnerabilities")) = 2
  /\ field(arrayOr(json, "vulnerabilities")[1], "severity") = Str(<<"l","o","w">>)
  /\ field(arrayOr(json, "vulnerabilities")[1], "ratings") = Arr(<<HighRating>>)
  /\ field(arrayOr(json, "vulnerabilities")[2], "severity") = Undef
  /\ field(arrayOr(json, "vulnerabilities")[2], "ratings") = Arr(<<CriticalRating>>)
  /\ field(arrayOr(json, "vulnerabilities")[2], "affects") = Undef
  /\ Len(parsed.value.items) = 2
  /\ parsed.value.items[1].severity = <<"L","O","W">>
  /\ parsed.value.items[1].cvss = Num(75)
  /\ parsed.value.items[2].severity = <<"C","R","I","T","I","C","A","L">>
  /\ parsed.value.items[2].severityRank = Num(4)
  /\ parsed.value.items[2].cvss = Num(91)

\* the one key of component c: the first present of bom-ref, bomRef, purl,
\* else name@version
OneKey(c) ==
  IF truthy(field(c, "bom-ref")) THEN field(c, "bom-ref")
  ELSE IF truthy(field(c, "bomRef")) THEN field(c, "bomRef")
  ELSE IF truthy(field(c, "purl")) THEN field(c, "purl")
  ELSE Str(textOr(field(c, "name"), <<"c","o","m","p","o","n","e","n","t">>) \o <<"@">>
             \o textOr(field(c, "version"), <<>>))

\* the position of the last component of comps whose key is ref, 0 for none
LastKeyed(comps, ref) ==
  IF \E k \in 1..Len(comps) : OneKey(comps[k]) = ref
  THEN CHOOSE k \in 1..Len(comps) :
         /\ OneKey(comps[k]) = ref
         /\ \A m \in (k + 1)..Len(comps) : OneKey(comps[m]) # ref
  ELSE 0

\* record it carries the name, version, purl and licenses of component c
JoinedWith(it, c) ==
  /\ it.component = or(field(c, "name"), JNull)
  /\ it.version = or(field(c, "version"), JNull)
  /\ it.purl = or(field(c, "purl"), JNull)
  /\ it.licenses = licenseNames(field(c, "licenses"))

\* C21: every component is indexed under one key, the first present of
\* bom-ref, bomRef, purl, else name@version, and a later component of the
\* same key replaces the earlier one: the record of a ref carries the name,
\* version, purl and licenses of the last component with that key, and no
\* component when the ref is only a later-ranked field of a component.
C21_LaterComponentWins ==
  pc = "returned" =>
    /\ ~parsed.threw
    /\ \A k \in 1..Len(arrayOr(json, "vulnerabilities")) :
         \A j \in 1..Len(UsableRefs(arrayOr(json, "vulnerabilities")[k])) :
           IF LastKeyed(componentsOf(json), UsableRefs(arrayOr(json, "vulnerabilities")[k])[j]) = 0
           THEN parsed.value.items[RecordsBefore(arrayOr(json, "vulnerabilities"), k - 1) + j]
                  .component = JNull
           ELSE JoinedWith(
                  parsed.value.items[RecordsBefore(arrayOr(json, "vulnerabilities"), k - 1) + j],
                  componentsOf(json)[LastKeyed(componentsOf(json),
                                     UsableRefs(arrayOr(json, "vulnerabilities")[k])[j])])

\* LibA then LibP, both of key pkg:a: the record of pkg:a is joined with LibP
C21_Witness ==
  /\ pc = "returned"
  /\ componentsOf(json) = <<LibA, LibP>>
  /\ arrayOr(json, "vulnerabilities") = <<JoinVulnerability>>
  /\ parsed.value.items[1].component = Str(<<"l","i","b","p">>)
  /\ parsed.value.items[1].version = JNull
  /\ parsed.value.items[1].purl = Str(<<"p","k","g",":","a">>)
  /\ parsed.value.items[1].licenses = <<Str(<<"M","I","T">>)>>
  /\ parsed.value.items[3].component = JNull

\* C30: a ref that is the key of no component still gets its record, in
\* its place, with the id of the vulnerability, component, version and purl
\* null, no licenses and direct true; parseCycloneDX does not throw.
C30_UnknownRefKept ==
  pc = "returned" =>
    /\ ~parsed.threw
    /\ \A k \in 1..Len(arrayOr(json, "vulnerabilities")) :
         \A j \in 1..Len(UsableRefs(arrayOr(json, "vulnerabilities")[k])) :
           LastKeyed(componentsOf(json), UsableRefs(arrayOr(json, "vulnerabilities")[k])[j]) = 0
           =>
             /\ RecordsBefore(arrayOr(json, "vulnerabilities"), k - 1) + j
                  <= Len(parsed.value.items)
             /\ parsed.value.items[RecordsBefore(arrayOr(json, "vulnerabilities"), k - 1) + j]
                  .id = or(field(arrayOr(json, "vulnerabilities")[k], "id"), JNull)
             /\ JoinedWith(
                  parsed.value.items[RecordsBefore(arrayOr(json, "vulnerabilities"), k - 1) + j],
                  Obj(EmptyFields))
             /\ parsed.value.items[RecordsBefore(arrayOr(json, "vulnerabilities"), k - 1) + j]
                  .direct = TRUE

\* no component at all: three records of CVE-2024-5555 without component
C30_Witness ==
  /\ pc = "returned"
  /\ componentsOf(json) = <<>>
  /\ arrayOr(json, "vulnerabilities") = <<JoinVulnerability>>
  /\ Len(parsed.value.items) = 3
  /\ \A k \in 1..3 :
       /\ parsed.value.items[k].id = Str(<<"C","V","E","-","2","0","2","4","-","5","5","5","5">>)
       /\ parsed.value.items[k].component = JNull
       /\ parsed.value.items[k].version = JNull
       /\ parsed.value.items[k].purl = JNull
       /\ parsed.value.items[k].licenses = <<>>
       /\ parsed.value.items[k].direct

-----------------------------------------------------------------------------
(* Spec: one run() of the action over a repository                         *)

\* number of comma-separated patterns of the sbom-files input
MaxPatterns == 2

UpdateAnalysis == Obj(Fields1("response", Arr(<<Str(<<"u","p","d","a","t","e">>)>>)))

\* CVE-2024-1111, critical, affecting liba and libb, fix by update
VulnTwoRefs ==
  Obj(Fields4("id", Str(<<"C","V","E","-","2","0","2","4","-","1","1","1","1">>), "severity", Str(<<"c","r","i","t","i","c","a","l">>),
              "affects", Arr(<<Obj(Fields1("ref", Str(<<"p","k","g",":","a">>))),
                               Obj(Fields1("ref", Str(<<"p","k","g",":","b">>)))>>),
              "analysis", UpdateAnalysis))

\* rated CRITICAL 9.1, no affects entry
VulnNoAffects == Obj(Fields2("id", Str(<<"G","H","S","A","-","x","x">>), "ratings", Arr(<<CriticalRating>>)))

\* an affects array holding null: a.ref throws
VulnNullAffect ==
  Obj(Fields2("id", Str(<<"C","V","E","-","2","0","2","4","-","2","2","2","2">>), "affects", Arr(<<JNull>>)))

VulnHigh ==
  Obj(Fields3("id", Str(<<"C","V","E","-","2","0","2","4","-","1","1","1","1">>), "severity", Str(<<"H","i","g","h">>),
              "affects", Arr(<<Obj(Fields1("ref", Str(<<"p","k","g",":","a">>)))>>)))

File(path, content) == [parts |-> path, content |-> content]

\* the repository: path -> path segments and content
FileTree ==
  ("reports/sbom-backend-amd64.cyclonedx.json" :>
      File(<<<<"r","e","p","o","r","t","s">>, <<"s","b","o","m","-","b","a","c","k","e","n","d","-","a","m","d","6","4",".","c","y","c","l","o","n","e","d","x",".","j","s","o","n">>>>,
           Document(Obj(Fields3("metadata", Obj(Fields1("timestamp", Str(<<"2","0","2","4","-","0","1","-","0","1">>))),
                                "components", Arr(<<LibA, LibB>>),
                                "vulnerabilities", Arr(<<VulnTwoRefs, VulnNoAffects>>))))))
  @@ ("reports/locked.json" :> File(<<<<"r","e","p","o","r","t","s">>, <<"l","o","c","k","e","d",".","j","s","o","n">>>>, Unreadable))
  @@ ("reports/empty.json" :>
      File(<<<<"r","e","p","o","r","t","s">>, <<"e","m","p","t","y",".","j","s","o","n">>>>,
           Document(Obj(Fields1("components", Arr(<<LibA>>))))))
  @@ ("scans/notes.txt" :> File(<<<<"s","c","a","n","s">>, <<"n","o","t","e","s",".","t","x","t">>>>, SyntaxError))
  @@ ("scans/spdx.xml" :> File(<<<<"s","c","a","n","s">>, <<"s","p","d","x",".","x","m","l">>>>, SyntaxError))
  @@ ("scans/midway.json" :>
      File(<<<<"s","c","a","n","s">>, <<"m","i","d","w","a","y",".","j","s","o","n">>>>,
           Document(Obj(Fields2("components", Arr(<<LibA>>),
                                "vulnerabilities", Arr(<<VulnNoAffects, VulnNullAffect>>))))))
  @@ ("scans/broken.yaml" :> File(<<<<"s","c","a","n","s">>, <<"b","r","o","k","e","n",".","y","a","m","l">>>>, SyntaxError))
  @@ ("reports/summary.html" :> File(<<<<"r","e","p","o","r","t","s">>, <<"s","u","m","m","a","r","y",".","h","t","m","l">>>>, SyntaxError))
  @@ ("scans/none.yaml" :>
      File(<<<<"s","c","a","n","s">>, <<"n","o","n","e",".","y","a","m","l">>>>,
           Document(Obj(Fields1("components", Arr(<<LibB>>))))))
  @@ ("web/app.yml" :>
      File(<<<<"w","e","b">>, <<"a","p","p",".","y","m","l">>>>,
           Document(Obj(Fields1("vulnerabilities", Arr(<<VulnNoAffects>>))))))
  @@ ("backend-amd64/app.yml" :>
      File(<<<<"b","a","c","k","e","n","d","-","a","m","d","6","4">>, <<"a","p","p",".","y","m","l">>>>,
           Document(Obj(Fields1("vulnerabilities", Arr(<<VulnHigh>>))))))

\* glob.glob(pattern, ...) over the repository: the matches, or a rejection
Glob ==
  ("**/*.json" :> Ok(<<"reports/empty.json", "reports/locked.json",
                       "reports/sbom-backend-amd64.cyclonedx.json", "scans/midway.json">>))
  @@ ("scans/*" :> Ok(<<"scans/broken.yaml", "scans/midway.json", "scans/none.yaml",
                        "scans/notes.txt", "scans/spdx.xml">>))
  @@ ("**/*.yml" :> Ok(<<"backend-amd64/app.yml", "web/app.yml">>))
  @@ ("reports/*" :> Ok(<<"reports/empty.json", "reports/locked.json",
                          "reports/sbom-backend-amd64.cyclonedx.json",
                          "reports/summary.html">>))
  @@ ("nomatch/*" :> Ok(<<>>))
  @@ ("[" :> Threw)

Pattern(n)   == [kind |-> "pattern", pattern |-> n]
FileWarn(f)  == [kind |-> "file", file |-> f]
NoFilesWarn  == [kind |-> "noFiles"]

SupportedExtensions == {<<".","j","s","o","n">>, <<".","x","m","l">>, <<".","y","a","m","l">>, <<".","y","m","l">>}

\* the for loop of findSBOMFiles: files collected and warnings logged
RECURSIVE globLoop(_, _, _, _)
globLoop(ps, k, files, warns) ==
  IF k > Len(ps) THEN [files |-> files, warns |-> warns]
  ELSE IF Glob[ps[k]].threw
       THEN globLoop(ps, k + 1, files, Append(warns, Pattern(ps[k])))
  ELSE globLoop(ps, k + 1, files \o Glob[ps[k]].value, warns)

\* faulty variant: every match is kept
unique_all(files) == files

\* [...new Set(files)]: the first occurrence of each file, in order
firstOccurrences(files) ==
  SelectSeq([k \in 1..Len(files) |-> k],
            LAMBDA k : \A j \in 1..(k - 1) : files[j] # files[k])

unique(files) ==
  [i \in 1..Len(firstOccurrences(files)) |-> files[firstOccurrences(files)[i]]]

isSupported(f) ==
  toLowerCase(extname(FileTree[f].parts[Len(FileTree[f].parts)])) \in SupportedExtensions

Init ==
  /\ pc = "createOutputDir"
  /\ patterns \in {q \in SeqsUpTo(DOMAIN Glob, MaxPatterns) : Len(q) >= 1}
  /\ sbomFiles = <<>> /\ fileIdx = 0
  /\ datasets = <<>> /\ allItems = <<>> /\ warnings = <<>> /\ parsedData = <<>>
  /\ outputFiles = <<>> /\ writes = <<>> /\ failed = FALSE /\ failedBy = "none"
  /\ outputs = {}
  /\ IdleDs /\ IdleFix /\ IdleParse /\ IdleCall /\ IdleUI

\* faulty variant: the error is reported and the run goes on to its outputs
SetFailed_goesOn(step) ==
  /\ failed' = TRUE
  /\ failedBy' = step
  /\ pc' = "setOutput"

\* the catch of run(): core.setFailed
SetFailed(step) ==
  /\ failed' = TRUE
  /\ failedBy' = step
  /\ pc' = "done"

\* fs.writeFileSync(name, content)
WriteFile(name, content) ==
  /\ outputFiles' = [n \in DOMAIN outputFiles \cup {name} |->
                       IF n = name THEN content ELSE outputFiles[n]]
  /\ writes' = Append(writes, name)

CreateOutputDir ==
  /\ pc = "createOutputDir"
  /\ pc' = "findSBOMFiles"
  /\ UNCHANGED <<dsVars, fixVars, parseVars, callVars, uiVars, patterns, sbomFiles, fileIdx, datasets,
                 allItems, warnings, parsedData, outputFiles, writes, failed, failedBy,
                 outputs>>

\* fs.mkdirSync throws
CreateOutputDirThrows ==
  /\ pc = "createOutputDir"
  /\ SetFailed("createOutputDir")
  /\ UNCHANGED <<dsVars, fixVars, parseVars, callVars, uiVars, patterns, sbomFiles, fileIdx, datasets,
                 allItems, warnings, parsedData, outputFiles, writes, outputs>>

FindSBOMFiles ==
  /\ pc = "findSBOMFiles"
  /\ \E found \in {globLoop(patterns, 1, <<>>, <<>>)} :
       /\ warnings' = warnings \o found.warns
       /\ \E supportedFiles \in {SelectSeq(unique(found.files), isSupported)} :
            /\ sbomFiles' = supportedFiles
            /\ pc' = IF Len(supportedFiles) = 0 THEN "createSampleData" ELSE "parseSBOMFiles"
  /\ fileIdx' = 1
  /\ UNCHANGED <<dsVars, fixVars, parseVars, callVars, uiVars, patterns, datasets, allItems, parsedData,
                 outputFiles, writes, failed, failedBy, outputs>>

\* faulty variant: no try / catch around the file, an error of a file
\* reaches the catch of run()
ParseFile_noCatch ==
  /\ pc = "parseSBOMFiles"
  /\ fileIdx <= Len(sbomFiles)
  /\ \E r \in {processFile(sbomFiles[fileIdx], FileTree[sbomFiles[fileIdx]].parts,
                           FileTree[sbomFiles[fileIdx]].content,
                           extractDatasetId(FileTree[sbomFiles[fileIdx]].parts))} :
       /\ warnings' = warnings
       /\ datasets' = datasets \o r.datasets
       /\ allItems' = allItems \o r.items
       /\ IF Len(r.warns) > 0
          THEN SetFailed("parseSBOMFiles") /\ UNCHANGED fileIdx
          ELSE fileIdx' = fileIdx + 1 /\ UNCHANGED <<pc, failed, failedBy>>
  /\ UNCHANGED <<dsVars, fixVars, parseVars, callVars, uiVars, patterns, sbomFiles, parsedData,
                 outputFiles, writes, outputs>>

\* one iteration of  for (const file of sbomFiles)  in parseSBOMFiles
ParseFile ==
  /\ pc = "parseSBOMFiles"
  /\ fileIdx <= Len(sbomFiles)
  /\ \E r \in {processFile(sbomFiles[fileIdx], FileTree[sbomFiles[fileIdx]].parts,
                           FileTree[sbomFiles[fileIdx]].content,
                           extractDatasetId(FileTree[sbomFiles[fileIdx]].parts))} :
       /\ warnings' = warnings \o r.warns
       /\ datasets' = datasets \o r.datasets
       /\ allItems' = allItems \o r.items
  /\ fileIdx' = fileIdx + 1
  /\ UNCHANGED <<pc, dsVars, fixVars, parseVars, callVars, uiVars, patterns, sbomFiles, parsedData,
                 outputFiles, writes, failed, failedBy, outputs>>

\* faulty variant: without any record the fixture is returned
ParseSBOMFilesReturn_sampleIfEmpty ==
  /\ pc = "parseSBOMFiles"
  /\ fileIdx > Len(sbomFiles)
  /\ parsedData' = IF Len(allItems) = 0 THEN sampleData ELSE parseResult(datasets, allItems)
  /\ pc' = "writeParsedData"
  /\ UNCHANGED <<dsVars, fixVars, parseVars, callVars, uiVars, patterns, sbomFiles, fileIdx, datasets,
                 allItems, warnings, outputFiles, writes, failed, failedBy, outputs>>

\* the code of parseSBOMFiles after its loop
ParseSBOMFilesReturn ==
  /\ pc = "parseSBOMFiles"
  /\ fileIdx > Len(sbomFiles)
  /\ parsedData' = parseResult(datasets, allItems)
  /\ pc' = "writeParsedData"
  /\ UNCHANGED <<dsVars, fixVars, parseVars, callVars, uiVars, patterns, sbomFiles, fileIdx, datasets,
                 allItems, warnings, outputFiles, writes, failed, failedBy, outputs>>

WriteParsedData ==
  /\ pc = "writeParsedData"
  /\ WriteFile("parse-sboms.json", parsedData)
  /\ pc' = "generateHTML"
  /\ UNCHANGED <<dsVars, fixVars, parseVars, callVars, uiVars, patterns, sbomFiles, fileIdx, datasets,
                 allItems, warnings, parsedData, failed, failedBy, outputs>>

\* fs.writeFileSync of parse-sboms.json throws
WriteParsedDataThrows ==
  /\ pc = "writeParsedData"
  /\ SetFailed("writeParsedData")
  /\ UNCHANGED <<dsVars, fixVars, parseVars, callVars, uiVars, patterns, sbomFiles, fileIdx, datasets,
                 allItems, warnings, parsedData, outputFiles, writes, outputs>>

CreateSampleData ==
  /\ pc = "createSampleData"
  /\ warnings' = Append(warnings, NoFilesWarn)
  /\ parsedData' = sampleData
  /\ WriteFile("parse-sboms.json", sampleData)
  /\ pc' = "generateHTML"
  /\ UNCHANGED <<dsVars, fixVars, parseVars, callVars, uiVars, patterns, sbomFiles, fileIdx, datasets,
                 allItems, failed, failedBy, outputs>>

\* the write of createSampleData throws
CreateSampleDataThrows ==
  /\ pc = "createSampleData"
  /\ warnings' = Append(warnings, NoFilesWarn)
  /\ parsedData' = sampleData
  /\ SetFailed("createSampleData")
  /\ UNCHANGED <<dsVars, fixVars, parseVars, callVars, uiVars, patterns, sbomFiles, fileIdx, datasets,
                 allItems, outputFiles, writes, outputs>>

\* index.html embeds parse-sboms.json when that file exists
GenerateHTML ==
  /\ pc = "generateHTML"
  /\ WriteFile("index.html",
               IF "parse-sboms.json" \in DOMAIN outputFiles
               THEN [embedded |-> <<outputFiles["parse-sboms.json"]>>]
               ELSE [embedded |-> <<>>])
  /\ pc' = "copyStaticAssets"
  /\ UNCHANGED <<dsVars, fixVars, parseVars, callVars, uiVars, patterns, sbomFiles, fileIdx, datasets,
                 allItems, warnings, parsedData, failed, failedBy, outputs>>

GenerateHTMLThrows ==
  /\ pc = "generateHTML"
  /\ SetFailed("generateHTML")
  /\ UNCHANGED <<dsVars, fixVars, parseVars, callVars, uiVars, patterns, sbomFiles, fileIdx, datasets,
                 allItems, warnings, parsedData, outputFiles, writes, outputs>>

CopyStaticAssets ==
  /\ pc = "copyStaticAssets"
  /\ pc' = "generateDeploymentInfo"
  /\ UNCHANGED <<dsVars, fixVars, parseVars, callVars, uiVars, patterns, sbomFiles, fileIdx, datasets,
                 allItems, warnings, parsedData, outputFiles, writes, failed, failedBy,
                 outputs>>

DeploymentFiles ==
  <<"deployment-info.json", "deploy-to-github-pages.yml", "DEPLOYMENT.md",
    "PREVIEW-INSTRUCTIONS.md">>

\* the first n writes of generateDeploymentInfo
DeploymentWrites(n) ==
  /\ outputFiles' = [f \in DOMAIN outputFiles \cup {DeploymentFiles[k] : k \in 1..n} |->
                       IF f \in DOMAIN outputFiles THEN outputFiles[f] ELSE "text"]
  /\ writes' = writes \o SubSeq(DeploymentFiles, 1, n)

GenerateDeploymentInfo ==
  /\ pc = "generateDeploymentInfo"
  /\ DeploymentWrites(Len(DeploymentFiles))
  /\ pc' = "setOutput"
  /\ UNCHANGED <<dsVars, fixVars, parseVars, callVars, uiVars, patterns, sbomFiles, fileIdx, datasets,
                 allItems, warnings, parsedData, failed, failedBy, outputs>>

\* one of the four writes throws, after n of them succeeded
GenerateDeploymentInfoThrows ==
  /\ pc = "generateDeploymentInfo"
  /\ \E n \in 0..(Len(DeploymentFiles) - 1) : DeploymentWrites(n)
  /\ SetFailed("generateDeploymentInfo")
  /\ UNCHANGED <<dsVars, fixVars, parseVars, callVars, uiVars, patterns, sbomFiles, fileIdx, datasets,
                 allItems, warnings, parsedData, outputs>>

SetOutput ==
  /\ pc = "setOutput"
  /\ outputs' = {"output-path", "preview-url"}
  /\ pc' = "done"
  /\ UNCHANGED <<dsVars, fixVars, parseVars, callVars, uiVars, patterns, sbomFiles, fileIdx, datasets,
                 allItems, warnings, parsedData, outputFiles, writes, failed, failedBy>>

Next ==
  \/ CreateOutputDir \/ CreateOutputDirThrows
  \/ FindSBOMFiles
  \/ ParseFile \/ ParseSBOMFilesReturn
  \/ WriteParsedData \/ WriteParsedDataThrows
  \/ CreateSampleData \/ CreateSampleDataThrows
  \/ GenerateHTML \/ GenerateHTMLThrows
  \/ CopyStaticAssets
  \/ GenerateDeploymentInfo \/ GenerateDeploymentInfoThrows
  \/ SetOutput

Spec == Init /\ [][Next]_vars

Positions ==
  {"createOutputDir", "findSBOMFiles", "parseSBOMFiles", "createSampleData",
   "writeParsedData", "generateHTML", "copyStaticAssets", "generateDeploymentInfo",
   "setOutput", "done"}

\* run() goes on: its position, or the file its loop is at, changes.  Every
\* step of Next is such a step, and one is possible exactly while pc is not
\* "done".
Continue ==
  /\ pc # "done"
  /\ pc' \in Positions
  /\ fileIdx' \in 0..(Cardinality(DOMAIN FileTree) + 1)
  /\ <<pc', fileIdx'>> # <<pc, fileIdx>>

\* run() is one chain of awaited calls, each of which returns or throws: a
\* run that is not done goes on
SpecRun == Init /\ [][Next]_vars /\ WF_<<pc, fileIdx>>(Continue)

-----------------------------------------------------------------------------
(* Claims about run() and parseSBOMFiles                                   *)

AfterDiscovery ==
  {"parseSBOMFiles", "writeParsedData", "generateHTML", "copyStaticAssets",
   "generateDeploymentInfo", "setOutput", "done"}

ExtOf(f) == toLowerCase(extname(FileTree[f].parts[Len(FileTree[f].parts)]))

\* a document parseCycloneDX cannot get through: null, or an affects array
\* that holds null
Malformed(doc) ==
  \/ nullish(doc)
  \/ \E k \in 1..Len(arrayOr(doc, "vulnerabilities")) :
       \E a \in 1..Len(arrayOr(arrayOr(doc, "vulnerabilities")[k], "affects")) :
         nullish(arrayOr(arrayOr(doc, "vulnerabilities")[k], "affects")[a])

\* the read or the parse of file f fails
FileFails(f) ==
  \/ FileTree[f].content.kind = "unreadable"
  \/ /\ ExtOf(f) # <<".","x","m","l">>
     /\ \/ FileTree[f].content.kind = "syntaxError"
        \/ FileTree[f].content.kind = "document" /\ Malformed(FileTree[f].content.doc)

\* the records of a file that does not fail
RecordsOf(f) ==
  IF ExtOf(f) = <<".","x","m","l">> THEN <<>>
  ELSE parseCycloneDX(FileTree[f].content.doc, extractDatasetId(FileTree[f].parts)).value.items

RECURSIVE GoodItems(_)
GoodItems(fs) ==
  IF Len(fs) = 0 THEN <<>>
  ELSE (IF FileFails(Head(fs)) THEN <<>> ELSE RecordsOf(Head(fs))) \o GoodItems(Tail(fs))

RECURSIVE FailedWarnings(_)
FailedWarnings(fs) ==
  IF Len(fs) = 0 THEN <<>>
  ELSE (IF FileFails(Head(fs)) THEN <<FileWarn(Head(fs))>> ELSE <<>>)
       \o FailedWarnings(Tail(fs))

IsFileWarn(w) == w.kind = "file"

\* the files the loop of parseSBOMFiles is done with
Processed ==
  SubSeq(sbomFiles, 1, IF fileIdx - 1 < Len(sbomFiles) THEN fileIdx - 1 ELSE Len(sbomFiles))

\* C2: a file whose read or parse fails, also midway through its
\* vulnerabilities, is skipped with a warning and adds nothing to items and
\* datasets; the records of every other file, before and after it, are in
\* the output; the run is not aborted.
C2_FailedFileSkipped ==
  /\ pc \in AfterDiscovery =>
       /\ allItems = GoodItems(Processed)
       /\ SelectSeq(warnings, IsFileWarn) = FailedWarnings(Processed)
       /\ \A d \in 1..Len(datasets) :
            \E k \in 1..Len(Processed) :
              /\ ~FileFails(Processed[k])
              /\ datasets[d].id = extractDatasetId(FileTree[Processed[k]].parts)
  /\ pc \in AfterDiscovery \ {"parseSBOMFiles"} /\ Len(sbomFiles) > 0 =>
       parsedData.items = GoodItems(sbomFiles)
  /\ failedBy # "parseSBOMFiles"

\* an unreadable file and a file failing midway between files that parse:
\* 3 + 1 + 1 records, 2 warnings
C2_Witness ==
  /\ pc = "writeParsedData"
  /\ sbomFiles = <<"reports/empty.json", "reports/locked.json",
                   "reports/sbom-backend-amd64.cyclonedx.json", "scans/midway.json",
                   "backend-amd64/app.yml", "web/app.yml">>
  /\ Len(parsedData.items) = 5
  /\ Len(parsedData.datasets) = 3
  /\ warnings = <<FileWarn("reports/locked.json"), FileWarn("scans/midway.json")>>

\* C3: the only condition that makes a run end as failed is that the
\* output directory cannot be created.
C3_OnlyOutputDirFatal == failed => failedBy = "createOutputDir"

\* the steps of run() whose error reaches its catch
FatalSteps ==
  {"createOutputDir", "writeParsedData", "createSampleData", "generateHTML",
   "generateDeploymentInfo"}

\* C3 (amended): a run ends as failed only when createOutputDir, the write
\* of parse-sboms.json, generateHTML or generateDeploymentInfo throws; a
\* rejected glob pattern and a file that cannot be read or parsed are
\* warnings and never mark the run failed.
C3_FatalSteps ==
  /\ failed => failedBy \in FatalSteps /\ pc = "done"
  /\ (pc = "done" /\ ~failed) =>
       /\ outputs = {"output-path", "preview-url"}
       /\ {"parse-sboms.json", "index.html"} \subseteq DOMAIN outputFiles

\* a run with a rejected pattern and two files that fail to parse ends
\* without setFailed
C3_Witness ==
  /\ pc = "done"
  /\ ~failed
  /\ patterns = <<"[", "scans/*">>
  /\ warnings = <<Pattern("["), FileWarn("scans/broken.yaml"), FileWarn("scans/midway.json")>>
  /\ outputFiles["parse-sboms.json"].items = <<>>

ParsedResultKeys == {"generatedAt", "datasets", "items", "overall", "metrics"}

\* the positions of id in the list of top CVEs
TopPositions(top, id) == {k \in 1..Len(top) : top[k].id = Str(id)}

\* C4: with zero supported files the run writes a ParsedResult with the
\* keys generatedAt, datasets, items, overall, metrics, whose items are 2
\* records with the ids CVE-2024-12345 and CVE-2024-12346, and whose
\* metrics.topCVEs holds both ids in severityRank-descending order.
C4_SampleFallback ==
  (pc \in AfterDiscovery \ {"parseSBOMFiles", "writeParsedData"}
     /\ Len(sbomFiles) = 0 /\ ~failed) =>
    /\ "parse-sboms.json" \in DOMAIN outputFiles
    /\ LET d == outputFiles["parse-sboms.json"]
       IN  /\ DOMAIN d = ParsedResultKeys
           /\ Len(d.items) = 2
           /\ d.items[1].id = Str(<<"C","V","E","-","2","0","2","4","-","1","2","3","4","5">>)
           /\ d.items[2].id = Str(<<"C","V","E","-","2","0","2","4","-","1","2","3","4","6">>)
           /\ TopPositions(d.metrics.topCVEs, <<"C","V","E","-","2","0","2","4","-","1","2","3","4","5">>) # {}
           /\ TopPositions(d.metrics.topCVEs, <<"C","V","E","-","2","0","2","4","-","1","2","3","4","6">>) # {}
           /\ \A k \in 1..(Len(d.metrics.topCVEs) - 1) :
                d.metrics.topCVEs[k].worstSeverityRank.num
                  >= d.metrics.topCVEs[k + 1].worstSeverityRank.num

\* a run over a pattern that matches nothing, ended with the sample written
C4_Witness ==
  /\ pc = "done"
  /\ ~failed
  /\ patterns = <<"nomatch/*">>
  /\ sbomFiles = <<>>
  /\ warnings = <<NoFilesWarn>>
  /\ writes[1] = "parse-sboms.json"
  /\ Len(outputFiles["parse-sboms.json"].items) = 2

\* the number of items whose upper-cased severity is sev
SeverityCount(items, sev) ==
  Cardinality({k \in 1..Len(items) : severityKey(items[k]) = sev})

\* C5: in every ParsedResult written to parse-sboms.json, by parseSBOMFiles
\* or by the sample fallback, overall.total is the number of items and
\* overall.severityCounts is the per-severity count of the items.
C5_OverallMatchesItems ==
  "parse-sboms.json" \in DOMAIN outputFiles =>
    LET d == outputFiles["parse-sboms.json"]
    IN  /\ d.overall.total = Len(d.items)
        /\ \A sev \in DOMAIN d.overall.severityCounts :
             d.overall.severityCounts[sev] = SeverityCount(d.items, sev)

-----------------------------------------------------------------------------
(* SpecPick: pickCVSS applied to one list of ratings                       *)

\* longest list of ratings enumerated
MaxRatings == 3

\* entries of v.ratings: without score and severity, with a score of 0, with
\* score and severity under either pair of names, with a severity only, two
\* entries with the same score
RatingEntries ==
  {Obj(EmptyFields),
   Obj(Fields1("score", Num(0))),
   Obj(Fields2("score", Num(50), "severity", Str(<<"m","e","d","i","u","m">>))),
   Obj(Fields2("baseScore", Num(91), "baseSeverity", Str(<<"C","R","I","T","I","C","A","L">>))),
   Obj(Fields2("score", Num(91), "method", Str(<<"C","V","S","S","v","3">>))),
   Obj(Fields1("severity", Str(<<"H","i","g","h">>))),
   Obj(Fields3("score", JNull, "baseScore", Num(50), "source", Str(<<"n","v","d">>)))}

InitPick ==
  /\ pc = "pickCVSS"
  /\ arg \in {Arr(q) : q \in SeqsUpTo(RatingEntries, MaxRatings)}
  /\ ret = <<>>
  /\ IdleDs /\ IdleFix /\ IdleParse /\ IdleRun /\ IdleUI

PickCVSS ==
  /\ pc = "pickCVSS"
  /\ ret' = pickCVSS(arg)
  /\ pc' = "returned"
  /\ UNCHANGED <<arg, uiVars, dsVars, fixVars, parseVars, runVars>>

NextPick == PickCVSS

SpecPick == InitPick /\ [][NextPick]_vars

\* the score and the severity a rating supplies, under either name
SuppliedScore(r)    == nc(field(r, "score"), field(r, "baseScore"))
SuppliedSeverity(r) == or(field(r, "severity"), field(r, "baseSeverity"))

\* C11: pickCVSS never returns a candidate whose score is less than the
\* greatest score among the candidates that supplied one (the returned
\* candidate's missing score counting as 0).
C11_NeverBelowMax ==
  pc = "returned" =>
    /\ ~ret.threw
    /\ ret.value # JNull =>
         \A k \in 1..Len(arg.items) :
           SuppliedScore(arg.items[k]).kind = "number" =>
             numOr(ret.value.score, 0) >= SuppliedScore(arg.items[k]).num

\* the greatest score is in the middle of the list
C11_Witness ==
  /\ pc = "returned"
  /\ Len(arg.items) = 3
  /\ SuppliedScore(arg.items[1]) = Num(50)
  /\ SuppliedScore(arg.items[2]) = Num(91)
  /\ SuppliedScore(arg.items[3]) = Num(0)
  /\ ret.value.score = Num(91)

\* an entry pickCVSS does not skip, and the score it is compared by
Usable(r)   == ~nullish(SuppliedScore(r)) \/ truthy(SuppliedSeverity(r))
CmpScore(r) == numOr(SuppliedScore(r), 0)

\* k is the first usable entry of rs whose comparison score is the greatest
FirstMaximal(rs, k) ==
  /\ Usable(rs[k])
  /\ \A m \in 1..Len(rs) : Usable(rs[m]) => CmpScore(rs[m]) <= CmpScore(rs[k])
  /\ \A m \in 1..(k - 1) : Usable(rs[m]) => CmpScore(rs[m]) < CmpScore(rs[k])

\* C19: pickCVSS returns null exactly when no entry has a score or a
\* severity; otherwise it returns the first entry, in list order, whose
\* comparison score (a missing score counting as 0) is the greatest among
\* the usable entries, with score null when that entry had no score.
C19_FirstMaximal ==
  pc = "returned" =>
    /\ ~ret.threw
    /\ ret.value = JNull <=> \A k \in 1..Len(arg.items) : ~Usable(arg.items[k])
    /\ \A k \in 1..Len(arg.items) :
         FirstMaximal(arg.items, k) =>
           /\ ret.value # JNull
           /\ ret.value.score = nc(SuppliedScore(arg.items[k]), JNull)
           /\ ret.value.severity =
                Str(toUpperCase(textOr(SuppliedSeverity(arg.items[k]), <<>>)))
           /\ ret.value.method =
                or(or(field(arg.items[k], "method"), field(arg.items[k], "source")), JNull)

\* a severity without score, then a score of 0: the first is kept, score null
C19_Witness ==
  /\ pc = "returned"
  /\ Len(arg.items) = 3
  /\ arg.items[1] = Obj(EmptyFields)
  /\ arg.items[2] = Obj(Fields1("severity", Str(<<"H","i","g","h">>)))
  /\ arg.items[3] = Obj(Fields1("score", Num(0)))
  /\ ret.value.score = JNull
  /\ ret.value.severity = Str(<<"H","I","G","H">>)

-----------------------------------------------------------------------------
(* SpecTop: buildTopCVEs applied to one list of items                      *)

\* number of distinct CVE ids of the longest enumerated list
MaxDistinct == 11
\* number of further items at the end of an enumerated list
MaxTail == 2

\* the fields of a record that countSeverities and buildTopCVEs read
Item(id, dsId, severity, rank, cvss) ==
  [id |-> id, dataset |-> dsId, severity |-> severity, severityRank |-> rank, cvss |-> cvss]

DigitChar(d) == <<"0", "1", "2", "3", "4", "5", "6", "7", "8", "9">>[d + 1]

RankLabels == <<<<"I","N","F","O">>, <<"L","O","W">>, <<"M","E","D","I","U","M">>, <<"H","I","G","H">>, <<"C","R","I","T","I","C","A","L">>>>

\* the n-th CVE: CVE-2024-10nn, of rank n mod 5, without cvss when 3 divides n
DistinctItem(n) ==
  Item(Str(<<"C","V","E","-","2","0","2","4","-","1","0">> \o <<DigitChar(n \div 10), DigitChar(n % 10)>>),
       IF n % 2 = 0 THEN <<"w","e","b">> ELSE <<"a","p","i">>,
       RankLabels[(n % 5) + 1], Num(n % 5),
       IF n % 3 = 0 THEN JNull ELSE Num(10 * (n % 7)))

\* items without a CVE id, and further items of the first and the last CVE
TailItems ==
  {Item(JNull, <<"w","e","b">>, <<"C","R","I","T","I","C","A","L">>, Num(4), Num(100)),
   Item(Str(<<"G","H","S","A","-","x","x">>), <<"w","e","b">>, <<"C","R","I","T","I","C","A","L">>, Num(4), Num(100)),
   Item(Str(<<"C","V","E","-","2","0","2","4","-","1","2","3">>), <<"w","e","b">>, <<"C","R","I","T","I","C","A","L">>, Num(4), Num(100)),
   Item(Str(<<"C","V","E","-","2","0","2","4","-","1","0","0","1">>), <<"W","e","b">>, <<"C","R","I","T","I","C","A","L">>, Num(4), Num(98)),
   Item(Str(<<"C","V","E","-","2","0","2","4","-","1","0","0","1">>), <<"a","p","i">>, <<"U","N","K","N","O","W","N">>, JNull, JNull),
   Item(Str(<<"C","V","E","-","2","0","2","4","-","1","0","1","1">>), <<"a","p","i">>, <<"C","R","I","T","I","C","A","L">>, Num(4), JNull)}

\* the first n CVEs, in rising or falling order, then a tail
TopLists ==
  {[k \in 1..n |-> DistinctItem(IF up THEN k ELSE n + 1 - k)] \o t :
     n \in 0..MaxDistinct, up \in BOOLEAN, t \in SeqsUpTo(TailItems, MaxTail)}

InitTop ==
  /\ pc = "buildTopCVEs"
  /\ arg \in TopLists
  /\ ret = <<>>
  /\ IdleDs /\ IdleFix /\ IdleParse /\ IdleRun /\ IdleUI

BuildTopCVEs ==
  /\ pc = "buildTopCVEs"
  /\ ret' = buildTopCVEs(arg)
  /\ pc' = "returned"
  /\ UNCHANGED <<arg, uiVars, dsVars, fixVars, parseVars, runVars>>

NextTop == BuildTopCVEs

SpecTop == InitTop /\ [][NextTop]_vars

\* t has the form CVE-dddd-dddd with further digits allowed at the end
CvePattern(t) ==
  /\ Len(t) >= 13
  /\ SubSeq(t, 1, 4) = <<"C","V","E","-">>
  /\ \A k \in 5..8 : t[k] \in Digits
  /\ t[9] = "-"
  /\ \A k \in 10..Len(t) : t[k] \in Digits

\* C13: buildTopCVEs returns at most 10 entries, no id twice, and every id
\* is the id of an item and has the form ^CVE-\d{4}-\d{4,}$: items with a
\* null or another id do not contribute.
C13_TopBounded ==
  pc = "returned" =>
    /\ Len(ret) <= 10
    /\ \A i, j \in 1..Len(ret) : ret[i].id = ret[j].id => i = j
    /\ \A i \in 1..Len(ret) :
         /\ ret[i].id.kind = "string"
         /\ CvePattern(ret[i].id.text)
         /\ \E k \in 1..Len(arg) : arg[k].id = ret[i].id

\* 11 CVEs, one item without id and one with another id: 10 entries
C13_Witness ==
  /\ pc = "returned"
  /\ Len(arg) = 13
  /\ Cardinality({arg[k].id : k \in 1..Len(arg)}) = 13
  /\ arg[12].id = JNull
  /\ arg[13].id = Str(<<"G","H","S","A","-","x","x">>)
  /\ Len(ret) = 10

\* the greatest element of a non-empty set of integers
MaxOf(S) == CHOOSE x \in S : \A y \in S : y <= x

\* the ids of arg that have the CVE form, and the items of one id
CveIds == {arg[k].id : k \in {m \in 1..Len(arg) :
                                 arg[m].id.kind = "string" /\ CvePattern(arg[m].id.text)}}
ItemsOf(id) == {k \in 1..Len(arg) : arg[k].id = id}

\* count, worst rank and greatest cvss of the items of one id
CountOf(id)     == Cardinality(ItemsOf(id))
WorstRankOf(id) == MaxOf({numOr(arg[k].severityRank, -1) : k \in ItemsOf(id)})
ScoredOf(id)    == {k \in ItemsOf(id) : ~nullish(arg[k].cvss)}
MaxCvssOf(id)   ==
  IF ScoredOf(id) = {} THEN JNull ELSE Num(MaxOf({arg[k].cvss.num : k \in ScoredOf(id)}))

\* <<rank, count, cvss>> of a goes strictly before that of b
RanksAbove(a, b) ==
  \/ a[1] > b[1]
  \/ a[1] = b[1] /\ a[2] > b[2]
  \/ a[1] = b[1] /\ a[2] = b[2] /\ a[3] > b[3]

EntryKey(e) == <<e.worstSeverityRank.num, e.count, numOr(e.maxCVSS, 0)>>
GroupKey(id) == <<WorstRankOf(id), CountOf(id), numOr(MaxCvssOf(id), 0)>>

\* C14: the entries are in the order worstSeverityRank descending, count
\* descending, maxCVSS descending with null as 0, and no CVE left out of
\* the result ranks strictly above an entry of it.
C14_TopOrdered ==
  pc = "returned" =>
    /\ \A i, j \in 1..Len(ret) : i < j => ~RanksAbove(EntryKey(ret[j]), EntryKey(ret[i]))
    /\ \A id \in CveIds \ {ret[i].id : i \in 1..Len(ret)} :
         /\ Len(ret) = 10
         /\ \A i \in 1..Len(ret) : ~RanksAbove(GroupKey(id), EntryKey(ret[i]))

\* 11 CVEs of which the last is seen twice: it comes first by its count, and
\* a CVE of rank 0 is left out
C14_Witness ==
  /\ pc = "returned"
  /\ Len(arg) = 12
  /\ arg[11].id = Str(<<"C","V","E","-","2","0","2","4","-","1","0","1","1">>)
  /\ arg[12].id = Str(<<"C","V","E","-","2","0","2","4","-","1","0","1","1">>)
  /\ ret[1].id = Str(<<"C","V","E","-","2","0","2","4","-","1","0","1","1">>)
  /\ ret[1].count = 2
  /\ ret[2].id = Str(<<"C","V","E","-","2","0","2","4","-","1","0","0","4">>)
  /\ ret[2].worstSeverityRank = ret[1].worstSeverityRank
  /\ Len(ret) = 10
  /\ Str(<<"C","V","E","-","2","0","2","4","-","1","0","1","0">>) \notin {ret[i].id : i \in 1..Len(ret)}

\* C20: every entry of buildTopCVEs has as count the number of items with
\* its id, as datasets the distinct dataset ids of these items in ascending
\* order, as maxCVSS their greatest non-null cvss (null when all are null)
\* and as worstSeverityRank their greatest severityRank.
C20_TopAggregates ==
  pc = "returned" =>
    \A i \in 1..Len(ret) :
      /\ ret[i].count = CountOf(ret[i].id)
      /\ {ret[i].datasets[k] : k \in 1..Len(ret[i].datasets)}
           = {arg[k].dataset : k \in ItemsOf(ret[i].id)}
      /\ \A k \in 1..(Len(ret[i].datasets) - 1) :
           codeUnitLess(ret[i].datasets[k], ret[i].datasets[k + 1])
      /\ ret[i].maxCVSS = MaxCvssOf(ret[i].id)
      /\ ret[i].worstSeverityRank = Num(WorstRankOf(ret[i].id))

\* CVE-2024-1001 in three items of the datasets api, Web and api, with the
\* ranks 1, 4 and none and the scores 1.0, 9.8 and none
C20_Witness ==
  /\ pc = "returned"
  /\ Len(arg) = 3
  /\ \A k \in 1..3 : arg[k].id = Str(<<"C","V","E","-","2","0","2","4","-","1","0","0","1">>)
  /\ arg[2].dataset = <<"W","e","b">>
  /\ arg[3].severityRank = JNull
  /\ Len(ret) = 1
  /\ ret[1].count = 3
  /\ ret[1].datasets = <<<<"W","e","b">>, <<"a","p","i">>>>
  /\ ret[1].maxCVSS = Num(98)
  /\ ret[1].worstSeverityRank = Num(4)

-----------------------------------------------------------------------------
(* SpecMetrics: what parseSBOMFiles computes from the items it collected    *)

\* length of the longest enumerated list of items
MaxItems == 40

\* the k-th of the items: without CVE id, with a fixed version for the first
\* n items
RateItem(k, n) ==
  Item(Str(<<"G","H","S","A","-","x","x">>), <<"w","e","b">>, RankLabels[(k % 5) + 1], Num(k % 5), JNull) @@
    [fixedVersions |-> IF k <= n THEN <<Str(<<"1",".","2",".","3">>)>> ELSE <<>>]

RateList(n, total) == [k \in 1..total |-> RateItem(k, n)]

RateLists ==
  UNION {{RateList(n, total) : n \in 0..total} : total \in 0..MaxItems}

InitMetrics ==
  /\ pc = "aggregate"
  /\ arg \in RateLists
  /\ ret = <<>>
  /\ IdleDs /\ IdleFix /\ IdleParse /\ IdleRun /\ IdleUI

Aggregate ==
  /\ pc = "aggregate"
  /\ ret' = parseResult(<<>>, arg)
  /\ pc' = "returned"
  /\ UNCHANGED <<arg, uiVars, dsVars, fixVars, parseVars, runVars>>

NextMetrics == Aggregate

SpecMetrics == InitMetrics /\ [][NextMetrics]_vars

WithFix(items) == Len(SelectSeq(items, hasFix))

\* round(100 * n / total) of the exact quotient, a half rounding up as
\* Math.round does
RoundedPercent(n, total) == (200 * n + total) \div (2 * total)

\* C15: metrics.fixAvailabilityRate is round(100 * withFix / total), where
\* withFix counts the items with a non-empty fixedVersions; it is 0 when
\* there are no items, and always an integer from 0 to 100.
C15_FixRate ==
  pc = "returned" =>
    /\ ret.metrics.fixAvailabilityRate \in 0..100
    /\ Len(arg) = 0 => ret.metrics.fixAvailabilityRate = 0
    /\ Len(arg) > 0 =>
         ret.metrics.fixAvailabilityRate = RoundedPercent(WithFix(arg), Len(arg))

-----------------------------------------------------------------------------
(* SpecCount: countSeverities applied to one list of items                  *)

\* length of the longest enumerated list of items
MaxCounted == 3

\* canonical labels in either case, labels outside the table that differ in
\* case only, and the empty label
CountedSeverities ==
  {<<"C","R","I","T","I","C","A","L">>, <<"h","i","g","h">>, <<"u","n","k","n","o","w","n">>, <<"N","e","g","l","i","g","i","b","l","e">>, <<"N","E","G","L","I","G","I","B","L","E">>, <<>>}

InitCount ==
  /\ pc = "countSeverities"
  /\ arg \in SeqsUpTo({Item(JNull, <<"w","e","b">>, t, JNull, JNull) : t \in CountedSeverities},
                      MaxCounted)
  /\ ret = <<>>
  /\ IdleDs /\ IdleFix /\ IdleParse /\ IdleRun /\ IdleUI

CountSeverities ==
  /\ pc = "countSeverities"
  /\ ret' = countSeverities(arg)
  /\ pc' = "returned"
  /\ UNCHANGED <<arg, uiVars, dsVars, fixVars, parseVars, runVars>>

NextCount == CountSeverities

SpecCount == InitCount /\ [][NextCount]_vars

\* the upper-cased label of an item, UNKNOWN for an item without label
LabelOf(it) == IF it.severity = <<>> THEN <<"U","N","K","N","O","W","N">> ELSE toUpperCase(it.severity)

RECURSIVE SumOver(_, _)
SumOver(f, keys) ==
  IF keys = {} THEN 0
  ELSE LET x == CHOOSE y \in keys : TRUE IN f[x] + SumOver(f, keys \ {x})

\* C16: countSeverities returns a map with the six keys CRITICAL, HIGH,
\* MEDIUM, LOW, INFO, UNKNOWN (all 0 for the empty list); every key counts
\* the items with that upper-cased label, a label outside the six under a
\* key of its own; the counts add up to the number of items.
C16_CountsByLabel ==
  pc = "returned" =>
    /\ CanonicalSeverities \subseteq DOMAIN ret
    /\ Len(arg) = 0 => \A x \in DOMAIN ret : ret[x] = 0
    /\ \A k \in 1..Len(arg) : LabelOf(arg[k]) \in DOMAIN ret
    /\ \A x \in DOMAIN ret :
         ret[x] = Cardinality({k \in 1..Len(arg) : LabelOf(arg[k]) = x})
    /\ SumOver(ret, DOMAIN ret) = Len(arg)

\* two items labelled Negligible and NEGLIGIBLE and one without label
C16_Witness ==
  /\ pc = "returned"
  /\ Len(arg) = 3
  /\ arg[1].severity = <<"N","e","g","l","i","g","i","b","l","e">>
  /\ arg[2].severity = <<>>
  /\ arg[3].severity = <<"N","E","G","L","I","G","I","B","L","E">>
  /\ ret[<<"N","E","G","L","I","G","I","B","L","E">>] = 2
  /\ ret[<<"U","N","K","N","O","W","N">>] = 1
  /\ Cardinality(DOMAIN ret) = 7

-----------------------------------------------------------------------------
(* SpecOrder: severityOrder applied to one value                            *)

\* the keys of the table, labels outside it, and two names every object
\* inherits
OrderWords ==
  DOMAIN SeverityMap \cup
    {<<"n","e","g","l","i","g","i","b","l","e">>, <<"m","o","d","e","r","a","t","e">>, <<"h","i","g","h","e","s","t">>, <<" ","h","i","g","h">>, <<"c","r","i","t">>, <<"c","o","n","s","t","r","u","c","t","o","r">>,
     <<"_","_","p","r","o","t","o","_","_">>}

capitalize(w) == [k \in 1..Len(w) |-> IF k = 1 THEN toUpperCase(w)[k] ELSE w[k]]

alternate(w) == [k \in 1..Len(w) |-> IF k % 2 = 0 THEN toUpperCase(w)[k] ELSE w[k]]

\* every word in four letter cases, the empty string, null and undefined
OrderInputs ==
  {Str(t) : t \in UNION {{w, toUpperCase(w), capitalize(w), alternate(w)} : w \in OrderWords}}
    \cup {Str(<<>>), JNull, Undef}

InitOrder ==
  /\ pc = "severityOrder"
  /\ arg \in OrderInputs
  /\ ret = <<>>
  /\ IdleDs /\ IdleFix /\ IdleParse /\ IdleRun /\ IdleUI

SeverityOrder ==
  /\ pc = "severityOrder"
  /\ ret' = severityOrder(textOr(arg, <<>>))
  /\ pc' = "returned"
  /\ UNCHANGED <<arg, uiVars, dsVars, fixVars, parseVars, runVars>>

NextOrder == SeverityOrder

SpecOrder == InitOrder /\ [][NextOrder]_vars

\* the rank the table gives a lower-cased label, 0 for a label outside it
TableRank(t) == IF t \in DOMAIN SeverityMap THEN SeverityMap[t] ELSE 0

\* C17: severityOrder returns an integer from 0 to 4 for every input:
\* the rank of the table for the lower-cased label, and 0 for a label
\* outside the table, the empty string and null.
C17_RankInRange ==
  pc = "returned" =>
    /\ ret.kind = "number"
    /\ ret.num \in 0..4
    /\ ret.num = TableRank(toLowerCase(textOr(arg, <<>>)))

-----------------------------------------------------------------------------
(* SpecView: the filters of the dashboard, location.hash and the saved view *)
(* The records listed and their pages are left out: page is 0 after every   *)
(* applyFilters.  cvssMin is in tenths.                                     *)

\* number of handlers run after init()
MaxClicks == 4

DefaultView ==
  [q |-> <<>>, dataset |-> <<>>, severity |-> <<>>, fix |-> <<>>, cvssMin |-> 0,
   sortKey |-> <<"s","e","v","e","r","i","t","y","R","a","n","k">>, sortDir |-> <<"d","e","s","c">>, page |-> 0]

\* the characters URLSearchParams escapes, among those of the enumerated values
FormEscapes ==
  (" " :> <<"+">>) @@ ("&" :> <<"%","2","6">>) @@ ("=" :> <<"%","3","D">>) @@ ("+" :> <<"%","2","B">>) @@
  ("%" :> <<"%","2","5">>) @@ ("#" :> <<"%","2","3">>)

\* the serialization of one name or value by URLSearchParams.toString()
formEncode(t) ==
  join([k \in 1..Len(t) |-> IF t[k] \in DOMAIN FormEscapes THEN FormEscapes[t[k]] ELSE <<t[k]>>],
       <<>>)

\* the parsing of one name or value by new URLSearchParams(text)
RECURSIVE formDecode(_)
formDecode(t) ==
  IF Len(t) = 0 THEN <<>>
  ELSE IF t[1] = "+" THEN <<" ">> \o formDecode(Tail(t))
  ELSE IF t[1] = "%" /\ \E c \in DOMAIN FormEscapes : FormEscapes[c] = SubSeq(t, 1, 3)
       THEN <<CHOOSE c \in DOMAIN FormEscapes : FormEscapes[c] = SubSeq(t, 1, 3)>>
              \o formDecode(SubSeq(t, 4, Len(t)))
  ELSE <<t[1]>> \o formDecode(Tail(t))

\* String(n) for a number of tenths
numberText(n) ==
  (IF n \div 10 >= 10 THEN <<DigitChar(n \div 100)>> ELSE <<>>)
    \o <<DigitChar((n \div 10) % 10)>>
    \o (IF n % 10 = 0 THEN <<>> ELSE <<".", DigitChar(n % 10)>>)

digitValue(c) == CHOOSE d \in 0..9 : DigitChar(d) = c

RECURSIVE digitsValue(_)
digitsValue(t) ==
  IF Len(t) = 0 THEN 0 ELSE 10 * digitsValue(SubSeq(t, 1, Len(t) - 1)) + digitValue(t[Len(t)])

\* Number(t) in tenths, for the texts numberText writes
textNumber(t) ==
  IF indexOf(t, <<".">>) = 0 THEN 10 * digitsValue(t)
  ELSE 10 * digitsValue(SubSeq(t, 1, indexOf(t, <<".">>) - 1)) + digitValue(t[Len(t)])

\* s.split(c)
RECURSIVE splitAt(_, _)
splitAt(t, c) ==
  IF indexOf(t, c) = 0 THEN <<t>>
  ELSE <<SubSeq(t, 1, indexOf(t, c) - 1)>> \o splitAt(SubSeq(t, indexOf(t, c) + 1, Len(t)), c)

\* new URLSearchParams({...}).toString()
searchParamsText(pairs) ==
  join([k \in 1..Len(pairs) |-> formEncode(pairs[k][1]) \o <<"=">> \o formEncode(pairs[k][2])],
       <<"&">>)

\* new URLSearchParams(text): the pairs of names and values
searchParams(t) ==
  LET pieces == SelectSeq(splitAt(t, <<"&">>), LAMBDA x : Len(x) > 0)
  IN  [k \in 1..Len(pieces) |->
         IF indexOf(pieces[k], <<"=">>) = 0 THEN <<formDecode(pieces[k]), <<>>>>
         ELSE <<formDecode(SubSeq(pieces[k], 1, indexOf(pieces[k], <<"=">>) - 1)),
                formDecode(SubSeq(pieces[k], indexOf(pieces[k], <<"=">>) + 1, Len(pieces[k])))>>]

\* s.get(name): the first value of that name, or null
get(s, name) ==
  IF \E k \in 1..Len(s) : s[k][1] = name
  THEN Str(s[CHOOSE k \in 1..Len(s) : s[k][1] = name /\ \A m \in 1..(k - 1) : s[m][1] # name][2])
  ELSE JNull

\* the value location.hash has after persistToHash()
persistToHash(v) ==
  <<"#">> \o searchParamsText(<<
    <<<<"q">>, v.q>>, <<<<"d","s">>, v.dataset>>, <<<<"s","e","v">>, v.severity>>, <<<<"f","i","x">>, v.fix>>,
    <<<<"c","v","s","s">>, numberText(v.cvssMin)>>, <<<<"d","i","r">>, v.sortDir>>, <<<<"k","e","y">>, v.sortKey>>,
    <<<<"p">>, numberText(10 * v.page)>>>>)

\* s.get(name) || current
restoreField(s, name, current) == textOr(get(s, name), current)

\* Number(s.get(name) || current || 0)
restoreNumber(s, name, current) ==
  IF truthy(get(s, name)) THEN textNumber(get(s, name).text) ELSE current

restoreFrom(v, s) ==
  [q        |-> restoreField(s, <<"q">>, v.q),
   dataset  |-> restoreField(s, <<"d","s">>, v.dataset),
   severity |-> restoreField(s, <<"s","e","v">>, v.severity),
   fix      |-> restoreField(s, <<"f","i","x">>, v.fix),
   cvssMin  |-> restoreNumber(s, <<"c","v","s","s">>, v.cvssMin),
   sortDir  |-> restoreField(s, <<"d","i","r">>, v.sortDir),
   sortKey  |-> restoreField(s, <<"k","e","y">>, v.sortKey),
   page     |-> restoreNumber(s, <<"p">>, 10 * v.page) \div 10]

\* the fields after restoreFromHash(), location.hash being h
restoreFromHash(v, h) ==
  restoreFrom(v, searchParams(IF Len(h) > 0 /\ h[1] = "#" THEN Tail(h) ELSE h))

\* the fields after applyFilters(true)
applyFilters(v) == [v EXCEPT !.page = 0]

\* values of the form controls
QValues        == {<<>>, <<"a","&","b"," ","c">>}
DatasetValues  == {<<>>, <<"w","e","b">>}
SeverityValues == {<<>>, <<"H","I","G","H">>}
FixValues      == {<<>>, <<"h","a","s">>}
CvssValues     == {0, 75}
SortKeyValues  == {<<"s","e","v","e","r","i","t","y","R","a","n","k">>, <<"c","v","s","s">>}

\* the hash of the URL the page was opened with: none, or one shared earlier
OpenedWith ==
  {<<>>, persistToHash([DefaultView EXCEPT !.q = <<"a","&","b"," ","c">>, !.severity = <<"H","I","G","H">>,
                                          !.sortDir = <<"a","s","c">>])}

\* after init(): restoreFromHash(), applyFilters(true)
InitView ==
  /\ pc = "init"
  /\ \E h \in OpenedWith :
       /\ view = applyFilters(restoreFromHash(DefaultView, h))
       /\ hash = persistToHash(applyFilters(restoreFromHash(DefaultView, h)))
  /\ sbom_view = JNull
  /\ savedFilters = <<>>
  /\ clicks = 0
  /\ app = <<>> /\ window = <<>>
  /\ IdleDs /\ IdleFix /\ IdleParse /\ IdleCall /\ IdleRun

\* one more handler runs
Click(name) ==
  /\ clicks < MaxClicks
  /\ clicks' = clicks + 1
  /\ pc' = name
  /\ UNCHANGED <<dsVars, fixVars, parseVars, callVars, runVars, app, window>>

\* a handler that changes a field and calls applyFilters(true)
Applied(v) ==
  /\ view' = applyFilters(v)
  /\ hash' = persistToHash(applyFilters(v))
  /\ UNCHANGED <<sbom_view, savedFilters>>

\* x-model on a control without @change: the field alone changes
Bound(v) ==
  /\ view' = v
  /\ UNCHANGED <<hash, sbom_view, savedFilters>>

OnInput ==
  \E t \in QValues : Click("onInput") /\ Applied([view EXCEPT !.q = t])

SelectDataset ==
  \E t \in DatasetValues : Click("dataset") /\ Bound([view EXCEPT !.dataset = t])

SelectSeverity ==
  \E t \in SeverityValues : Click("severity") /\ Bound([view EXCEPT !.severity = t])

SelectFix ==
  \E t \in FixValues : Click("fix") /\ Bound([view EXCEPT !.fix = t])

EnterCvssMin ==
  \E n \in CvssValues : Click("cvssMin") /\ Bound([view EXCEPT !.cvssMin = n])

SelectSortKey ==
  \E t \in SortKeyValues : Click("sortKey") /\ Applied([view EXCEPT !.sortKey = t])

ToggleSortDir ==
  /\ Click("toggleSortDir")
  /\ Applied([view EXCEPT !.sortDir = IF view.sortDir = <<"d","e","s","c">> THEN <<"a","s","c">> ELSE <<"d","e","s","c">>])

Apply == Click("applyFilters") /\ Applied(view)

ResetFilters == Click("resetFilters") /\ Applied(DefaultView)

SaveView ==
  /\ Click("saveView")
  /\ sbom_view' = Str(hash)
  /\ savedFilters' = [view EXCEPT !.page = 0]
  /\ UNCHANGED <<view, hash>>

LoadView ==
  /\ Click("loadView")
  /\ IF truthy(sbom_view)
     THEN Applied(restoreFromHash(view, sbom_view.text))
     ELSE UNCHANGED <<view, hash, sbom_view, savedFilters>>

NextView ==
  \/ OnInput \/ SelectDataset \/ SelectSeverity \/ SelectFix \/ EnterCvssMin
  \/ SelectSortKey \/ ToggleSortDir \/ Apply \/ ResetFilters \/ SaveView \/ LoadView

SpecView == InitView /\ [][NextView]_vars

\* C18: once saveView has stored a view, loadView leaves q, dataset,
\* severity, fix, cvssMin, sortKey and sortDir with the values they had
\* when the view was saved, empty values included, whatever changed since.
C18_LoadRestores ==
  (pc = "loadView" /\ savedFilters # <<>>) => view = savedFilters

-----------------------------------------------------------------------------
(* Further claims about run() and parseSBOMFiles                            *)

\* a readable file that holds no record: any .xml file, or a JSON or YAML
\* document, an object, without a vulnerabilities field
ZeroRecords(f) ==
  /\ FileTree[f].content.kind # "unreadable"
  /\ \/ ExtOf(f) = <<".","x","m","l">>
     \/ /\ FileTree[f].content.kind = "document"
        /\ FileTree[f].content.doc.kind = "object"
        /\ field(FileTree[f].content.doc, "vulnerabilities") = Undef

\* C22: the iteration of parseSBOMFiles over a file without records (a JSON
\* or YAML document without vulnerabilities array, any .xml file) logs no
\* warning, does not mark the run failed, adds no item and no datasets
\* entry, and goes on to the next file.
C22_ZeroRecordsNoError ==
  [][(pc = "parseSBOMFiles" /\ fileIdx <= Len(sbomFiles) /\ ZeroRecords(sbomFiles[fileIdx]))
       => /\ allItems' = allItems
          /\ datasets' = datasets
          /\ warnings' = warnings
          /\ failed' = failed
          /\ pc' = pc
          /\ fileIdx' = fileIdx + 1]_vars

\* a run over **/*.json and scans/* that is done: empty.json, none.yaml and
\* spdx.xml were parsed, no warning names them, datasets has the one entry of
\* the backend file
C22_Witness ==
  /\ pc = "done"
  /\ ~failed
  /\ patterns = <<"**/*.json", "scans/*">>
  /\ \A f \in {"reports/empty.json", "scans/none.yaml", "scans/spdx.xml"} :
       /\ \E k \in 1..Len(sbomFiles) : sbomFiles[k] = f
       /\ ZeroRecords(f)
       /\ \A w \in 1..Len(warnings) : warnings[w] # FileWarn(f)
  /\ Len(parsedData.datasets) = 1
  /\ Len(parsedData.items) = 3

\* the files of fs that do not fail and hold at least one record
RECURSIVE WithRecords(_)
WithRecords(fs) ==
  IF Len(fs) = 0 THEN <<>>
  ELSE (IF ~FileFails(Head(fs)) /\ Len(RecordsOf(Head(fs))) > 0 THEN <<Head(fs)>> ELSE <<>>)
       \o WithRecords(Tail(fs))

IdOf(f) == extractDatasetId(FileTree[f].parts)

\* the artifact parseSBOMFiles returned is in parsedData
Parsed == Len(sbomFiles) > 0 /\ pc \in {"writeParsedData", "generateHTML", "copyStaticAssets",
                                         "generateDeploymentInfo", "setOutput", "done"}

\* C23: after parseSBOMFiles the datasets are in one-to-one correspondence
\* with the files that yielded at least one record, each entry carrying the
\* id and the record count of its file, also when two files resolve to the
\* same id; the entries are in ascending order of id.
C23_EntryPerFile ==
  Parsed =>
    /\ Len(parsedData.datasets) = Len(WithRecords(sbomFiles))
    /\ \E m \in [1..Len(parsedData.datasets) -> 1..Len(parsedData.datasets)] :
         /\ \A i, j \in DOMAIN m : m[i] = m[j] => i = j
         /\ \A k \in DOMAIN m :
              /\ parsedData.datasets[m[k]].id = IdOf(WithRecords(sbomFiles)[k])
              /\ parsedData.datasets[m[k]].vulnerabilities
                   = Len(RecordsOf(WithRecords(sbomFiles)[k]))
    /\ \A i, j \in 1..Len(parsedData.datasets) :
         i < j => localeCompare(parsedData.datasets[i].id, parsedData.datasets[j].id) <= 0

\* a run over **/*.yml and **/*.json: the entry of web/app.yml was pushed
\* between the two entries with id backend-amd64 and is sorted behind them
C23_Witness ==
  /\ pc = "done"
  /\ ~failed
  /\ WithRecords(sbomFiles) = <<"backend-amd64/app.yml", "web/app.yml",
                                "reports/sbom-backend-amd64.cyclonedx.json">>
  /\ Len(parsedData.datasets) = 3
  /\ parsedData.datasets[1].id = <<"b","a","c","k","e","n","d","-","a","m","d","6","4">>
  /\ parsedData.datasets[2].id = <<"b","a","c","k","e","n","d","-","a","m","d","6","4">>
  /\ parsedData.datasets[1].vulnerabilities = 1
  /\ parsedData.datasets[2].vulnerabilities = 3
  /\ parsedData.datasets[3].id = IdOf("web/app.yml")
  /\ IdOf("web/app.yml") # <<"b","a","c","k","e","n","d","-","a","m","d","6","4">>

RECURSIVE TotalVulnerabilities(_)
TotalVulnerabilities(dsets) ==
  IF Len(dsets) = 0 THEN 0
  ELSE Head(dsets).vulnerabilities + TotalVulnerabilities(Tail(dsets))

\* C24: after parseSBOMFiles, whatever files failed, the vulnerabilities of
\* the datasets add up to the number of items, which is overall.total; in
\* every datasets entry the severityCounts add up to its vulnerabilities.
C24_CountsAgree ==
  Parsed =>
    /\ TotalVulnerabilities(parsedData.datasets) = Len(parsedData.items)
    /\ Len(parsedData.items) = parsedData.overall.total
    /\ \A k \in 1..Len(parsedData.datasets) :
         SumOver(parsedData.datasets[k].severityCounts,
                 DOMAIN parsedData.datasets[k].severityCounts)
           = parsedData.datasets[k].vulnerabilities

\* a run over **/*.json and **/*.yml: two files failed, the backend files
\* gave three records and one, web/app.yml one
C24_Witness ==
  /\ Parsed
  /\ Len(FailedWarnings(sbomFiles)) = 2
  /\ Len(parsedData.datasets) = 3
  /\ parsedData.datasets[1].vulnerabilities = 3
  /\ parsedData.datasets[2].vulnerabilities = 1
  /\ parsedData.datasets[3].vulnerabilities = 1
  /\ parsedData.overall.total = 5

\* C28: the fixture of createSampleData is written, and its warning logged,
\* only when discovery found no supported file; with at least one supported
\* file of which none gives a record, the artifact written is the one of
\* parseSBOMFiles: no item, no datasets entry, total 0, the six severity
\* counts 0, fixAvailabilityRate 0 and no topCVEs.
C28_SampleOnlyWithoutFiles ==
  /\ pc = "createSampleData" => Len(sbomFiles) = 0
  /\ (\E w \in 1..Len(warnings) : warnings[w] = NoFilesWarn) => Len(sbomFiles) = 0
  /\ ("parse-sboms.json" \in DOMAIN outputFiles /\ Len(sbomFiles) > 0) =>
       /\ outputFiles["parse-sboms.json"] # sampleData
       /\ outputFiles["parse-sboms.json"] = parsedData
       /\ WithRecords(sbomFiles) = <<>> =>
            /\ parsedData.items = <<>>
            /\ parsedData.datasets = <<>>
            /\ parsedData.overall.total = 0
            /\ DOMAIN parsedData.overall.severityCounts = CanonicalSeverities
            /\ \A x \in CanonicalSeverities : parsedData.overall.severityCounts[x] = 0
            /\ parsedData.metrics.fixAvailabilityRate = 0
            /\ parsedData.metrics.topCVEs = <<>>

\* a run over scans/* that is done: of the four supported files two failed
\* and two hold no record
C28_Witness ==
  /\ pc = "done"
  /\ ~failed
  /\ sbomFiles = <<"scans/broken.yaml", "scans/midway.json", "scans/none.yaml",
                   "scans/spdx.xml">>
  /\ FailedWarnings(sbomFiles) = <<FileWarn("scans/broken.yaml"), FileWarn("scans/midway.json")>>
  /\ outputFiles["parse-sboms.json"].items = <<>>
  /\ outputFiles["parse-sboms.json"].overall.total = 0

Files(fs) == {fs[k] : k \in 1..Len(fs)}

RECURSIVE RecordTotal(_)
RecordTotal(S) ==
  IF S = {} THEN 0
  ELSE LET f == CHOOSE g \in S : TRUE
       IN  (IF FileFails(f) THEN 0 ELSE Len(RecordsOf(f))) + RecordTotal(S \ {f})

\* C29: the list parseSBOMFiles walks through holds every file once,
\* whatever number of patterns matched it, and only files with one of the
\* four extensions; the output holds the records of every file once and one
\* datasets entry for every file with records.
C29_ParsedOnce ==
  pc \in AfterDiscovery =>
    /\ \A i, j \in 1..Len(sbomFiles) : sbomFiles[i] = sbomFiles[j] => i = j
    /\ \A k \in 1..Len(sbomFiles) : ExtOf(sbomFiles[k]) \in SupportedExtensions
    /\ pc = "parseSBOMFiles" =>
         Len(allItems) = RecordTotal(Files(Processed))
    /\ Parsed =>
         /\ Len(parsedData.items) = RecordTotal(Files(sbomFiles))
         /\ Len(parsedData.datasets)
              = Cardinality({f \in Files(sbomFiles) : ~FileFails(f) /\ Len(RecordsOf(f)) > 0})

\* a run over reports/* and **/*.json that is done: both patterns match the
\* backend file, its three records and its entry are in the output once;
\* reports/summary.html was matched and left out
C29_Witness ==
  /\ pc = "done"
  /\ ~failed
  /\ patterns = <<"reports/*", "**/*.json">>
  /\ sbomFiles = <<"reports/empty.json", "reports/locked.json",
                   "reports/sbom-backend-amd64.cyclonedx.json", "scans/midway.json">>
  /\ Len(outputFiles["parse-sboms.json"].items) = 3
  /\ Len(outputFiles["parse-sboms.json"].datasets) = 1

OutputNames == {"output-path", "preview-url"}

\* the run ended in exactly one of its two outcomes
OneOutcome ==
  \/ failed /\ outputs = {}
  \/ ~failed /\ outputs = OutputNames

\* what is on disk when the outputs are set: parse-sboms.json written once,
\* by createSampleData or by writeParsedData, then index.html with that
\* artifact embedded, then the four files of generateDeploymentInfo
WrittenInOrder ==
  /\ writes = <<"parse-sboms.json", "index.html">> \o DeploymentFiles
  /\ outputFiles["parse-sboms.json"] = parsedData
  /\ parsedData = IF Len(sbomFiles) = 0 THEN sampleData ELSE parseResult(datasets, allItems)
  /\ outputFiles["index.html"] = [embedded |-> <<parsedData>>]
  /\ \A k \in 1..Len(DeploymentFiles) : DeploymentFiles[k] \in DOMAIN outputFiles

\* every step of run() is a step of Continue
StepsContinue == [][Continue]_vars

\* C27: every run() comes to its end, with setFailed called or with the two
\* outputs set and never both; the outputs are set only by a run without
\* error that wrote parse-sboms.json exactly once, then index.html from it,
\* then the deployment files; nothing happens after setFailed.
C27_OneOutcome ==
  /\ <>(pc = "done")
  /\ [](pc = "done" => OneOutcome)
  /\ [](failed => pc = "done")
  /\ [](outputs # {} => outputs = OutputNames /\ ~failed /\ pc = "done" /\ WrittenInOrder)

\* a run over **/*.json ended with its outputs set after the six writes
C27_Witness ==
  /\ pc = "done"
  /\ outputs = OutputNames
  /\ ~failed
  /\ patterns = <<"**/*.json">>
  /\ writes = <<"parse-sboms.json", "index.html", "deployment-info.json",
                "deploy-to-github-pages.yml", "DEPLOYMENT.md", "PREVIEW-INSTRUCTIONS.md">>
  /\ Len(outputFiles["index.html"].embedded[1].items) = 3

-----------------------------------------------------------------------------
(* A further claim about extractDatasetId                                   *)

\* C26: extractDatasetId returns, for every path, a string that is not empty
\* and holds only letters, digits, - and _.
C26_NonEmptyId ==
  \A c \in 1..Len(datasetId) :
    /\ Len(datasetId[c]) > 0
    /\ \A k \in 1..Len(datasetId[c]) : datasetId[c][k] \in IdChars

-----------------------------------------------------------------------------
(* SpecPage: the pager of the dashboard under clicks and window resizes     *)

\* number of items of the dashboard
MaxRows == 45

\* most setTimeout callbacks of init and toggleSidebar pending at a time
MaxTimers == 2

\* one window.innerWidth per branch of adjustLayoutForScreenSize
Widths == {500, 800, 1100, 1400}

DashboardSeverities == <<<<"C","R","I","T","I","C","A","L">>, <<"H","i","g","h">>, <<"L","O","W">>>>
DashboardRanks      == <<4, 3, 1>>

DashboardItems ==
  [k \in 1..MaxRows |-> [id           |-> k,
                         severity     |-> DashboardSeverities[(k % 3) + 1],
                         severityRank |-> DashboardRanks[(k % 3) + 1]]]

\* the values of the severity select
SeverityChoices == {<<>>, <<"H","I","G","H">>, <<"M","E","D","I","U","M">>}

\* the callback of items.filter in applyFilters, the other filters empty
passesFilter(r, sev) == sev = <<>> \/ toUpperCase(r.severity) = sev

withRank(rows, n) == SelectSeq(rows, LAMBDA r : r.severityRank = n)

\* filtered.sort(...) with sortKey severityRank: the sort is stable and the
\* ranks are 0 to 4
sortBySeverityRank(rows, sortDir) ==
  IF sortDir = "desc"
  THEN withRank(rows, 4) \o withRank(rows, 3) \o withRank(rows, 2) \o withRank(rows, 1)
         \o withRank(rows, 0)
  ELSE withRank(rows, 0) \o withRank(rows, 1) \o withRank(rows, 2) \o withRank(rows, 3)
         \o withRank(rows, 4)

\* Math.max(1, Math.ceil(n / perPage))
pageCount(n, perPage) ==
  IF (n + perPage - 1) \div perPage < 1 THEN 1 ELSE (n + perPage - 1) \div perPage

\* xs.slice(start, end), 0 <= start <= end
slice(xs, start, end) ==
  IF start >= Len(xs) THEN <<>>
  ELSE SubSeq(xs, start + 1, IF end < Len(xs) THEN end ELSE Len(xs))

paginate(a) ==
  [a EXCEPT !.pages = pageCount(Len(a.filtered), a.perPage),
            !.paged = slice(a.filtered, a.page * a.perPage,
                            a.page * a.perPage + a.perPage)]

perPageFor(width, isSidebarOpen) ==
  IF width < 640 THEN 20
  ELSE IF width < 1024 THEN (IF isSidebarOpen THEN 30 ELSE 40)
  ELSE IF width < 1280 THEN (IF isSidebarOpen THEN 40 ELSE 50)
  ELSE (IF isSidebarOpen THEN 45 ELSE 60)

adjustLayoutForScreenSize(a, width) ==
  IF Len(a.filtered) > 0
  THEN paginate([a EXCEPT !.perPage = perPageFor(width, a.mobileFilters)])
  ELSE [a EXCEPT !.perPage = perPageFor(width, a.mobileFilters)]

\* applyFilters(true): filter, sort, page = 0, paginate(), and at its end
\* adjustLayoutForScreenSize()
applyFiltersTo(a, width) ==
  adjustLayoutForScreenSize(
    paginate([a EXCEPT !.filtered = sortBySeverityRank(
                                      SelectSeq(DashboardItems,
                                                LAMBDA r : passesFilter(r, a.severity)),
                                      a.sortDir),
                       !.page = 0]),
    width)

next(a) == IF a.page + 1 < a.pages THEN paginate([a EXCEPT !.page = a.page + 1]) ELSE a

prev(a) == IF a.page > 0 THEN paginate([a EXCEPT !.page = a.page - 1]) ELSE a

\* the data of app() before init()
AppData(width) ==
  [severity |-> <<>>, sortDir |-> "desc", filtered |-> <<>>, page |-> 0,
   perPage |-> IF width <= 640 THEN 20 ELSE 50, pages |-> 0, paged |-> <<>>,
   mobileFilters |-> FALSE]

\* after init(): applyFilters(true), adjustLayoutForScreenSize(), and one
\* setTimeout callback pending
InitPage ==
  /\ pc = "init"
  /\ \E width \in Widths :
       /\ app = adjustLayoutForScreenSize(applyFiltersTo(AppData(width), width), width)
       /\ window = [innerWidth |-> width, adjustTimers |-> 1, resizeTimer |-> FALSE]
  /\ IdleView /\ IdleDs /\ IdleFix /\ IdleParse /\ IdleCall /\ IdleRun

\* the handler name ran
Handled(name) ==
  /\ pc' = name
  /\ UNCHANGED <<dsVars, fixVars, parseVars, callVars, runVars, view, hash, sbom_view,
                 savedFilters, clicks>>

ClickNext == Handled("next") /\ app' = next(app) /\ UNCHANGED window

ClickPrev == Handled("prev") /\ app' = prev(app) /\ UNCHANGED window

\* x-model="severity": the select changes the field and nothing else
ChooseSeverity ==
  /\ Handled("severity")
  /\ \E sev \in SeverityChoices \ {app.severity} : app' = [app EXCEPT !.severity = sev]
  /\ UNCHANGED window

\* toggleSidebar(): the flag flips, adjustLayoutForScreenSize runs 100 ms later
toggleSidebar(a) == [a EXCEPT !.mobileFilters = ~a.mobileFilters]

resetFilters(a, width) ==
  applyFiltersTo([a EXCEPT !.severity = <<>>, !.sortDir = "desc", !.page = 0], width)

\* @click="toggleSortDir(); applyFilters(true)"
ClickSortDir ==
  /\ Handled("toggleSortDir")
  /\ app' = applyFiltersTo([app EXCEPT !.sortDir = IF app.sortDir = "desc" THEN "asc"
                                                  ELSE "desc"],
                           window.innerWidth)
  /\ UNCHANGED window

\* the Apply button: applyFilters(true); toggleSidebar()
ClickApply ==
  /\ window.adjustTimers < MaxTimers
  /\ Handled("applyFilters")
  /\ app' = toggleSidebar(applyFiltersTo(app, window.innerWidth))
  /\ window' = [window EXCEPT !.adjustTimers = window.adjustTimers + 1]

\* the Reset button: resetFilters(); toggleSidebar()
ClickReset ==
  /\ window.adjustTimers < MaxTimers
  /\ Handled("resetFilters")
  /\ app' = toggleSidebar(resetFilters(app, window.innerWidth))
  /\ window' = [window EXCEPT !.adjustTimers = window.adjustTimers + 1]

\* one of the buttons with @click="toggleSidebar()"
ToggleSidebar ==
  /\ window.adjustTimers < MaxTimers
  /\ Handled("toggleSidebar")
  /\ app' = toggleSidebar(app)
  /\ window' = [window EXCEPT !.adjustTimers = window.adjustTimers + 1]

\* the window is resized: the debounced handleResize is scheduled anew
ResizeWindow ==
  /\ Handled("resize")
  /\ \E width \in Widths \ {window.innerWidth} :
       window' = [window EXCEPT !.innerWidth = width, !.resizeTimer = TRUE]
  /\ UNCHANGED app

\* a callback of setTimeout(() => this.adjustLayoutForScreenSize(), 100) runs
AdjustTimeout ==
  /\ window.adjustTimers > 0
  /\ Handled("adjustLayoutForScreenSize")
  /\ app' = adjustLayoutForScreenSize(app, window.innerWidth)
  /\ window' = [window EXCEPT !.adjustTimers = window.adjustTimers - 1]

\* the debounced callback of handleResize runs
ResizeTimeout ==
  /\ window.resizeTimer
  /\ Handled("handleResize")
  /\ app' = adjustLayoutForScreenSize(
              [app EXCEPT !.mobileFilters = app.mobileFilters /\ ~(window.innerWidth < 640)],
              window.innerWidth)
  /\ window' = [window EXCEPT !.resizeTimer = FALSE]

NextPage ==
  \/ ClickNext \/ ClickPrev \/ ChooseSeverity \/ ClickSortDir \/ ClickApply \/ ClickReset
  \/ ToggleSidebar \/ ResizeWindow \/ AdjustTimeout \/ ResizeTimeout

SpecPage == InitPage /\ [][NextPage]_vars

\* C25: after any sequence of applyFilters, resetFilters, next, prev,
\* toggleSidebar and window resizes with their delayed callbacks, page is at
\* least 0 and less than pages, and paged is the slice of filtered that
\* starts at page * perPage and has at most perPage rows.
C25_PageInRange ==
  /\ 0 <= app.page
  /\ app.page < app.pages
  /\ app.paged = [k \in 1..(IF Len(app.filtered) - app.page * app.perPage < app.perPage
                             THEN IF Len(app.filtered) - app.page * app.perPage < 0 THEN 0
                                  ELSE Len(app.filtered) - app.page * app.perPage
                             ELSE app.perPage)
                    |-> app.filtered[app.page * app.perPage + k]]
====
